---- MODULE Spec2Model ----
(***************************************************************************)
(* Model of the watch-segment tracker of the study-mode extension:         *)
(* src/src/content/tracking/VideoTracker.ts and its store, storageUtils.ts.*)
(*                                                                         *)
(* Time is counted in ticks of half a second, so the merge tolerance of    *)
(* 0.5 s is one tick and the skip threshold of 1.0 s is two ticks.         *)
(* One tracker object is modelled at a time: the one most recently         *)
(* constructed by the page script.  It stays in the model after destroy()  *)
(* (its timers and its unfinished init keep running, as in the code) until *)
(* the next construction replaces it.                                      *)
(*                                                                         *)
(* Spec is the tracker with a store that takes every write; SpecOutage is  *)
(* the same tracker when the store stops taking writes; SpecMerge applies  *)
(* the two merge functions to arbitrary interval lists; SpecStore drives   *)
(* saveProgress, getProgress and clearProgress against the two backends,   *)
(* chrome.storage.local and localStorage, with their failures.             *)
(* SpecOwners follows the two owners of a tracker, StudyModeManager and    *)
(* the content script, through navigations and study-mode toggles;         *)
(* SpecDebounce puts a clock on the save timer of an attached tracker;     *)
(* SpecPlayback is an attached tracker during playback, seeks and rate     *)
(* changes included, whose due timers are run; SpecInit is init() with its *)
(* 500 ms retry while the page has no media element.  SpecThrottle and     *)
(* SpecDedup drive throttle() and deduplicatedRequest() of utils.ts.       *)
(***************************************************************************)
EXTENDS Integers, Sequences, FiniteSets, TLC

\* ---- bounds --------------------------------------------------------------
MaxTime == 4        \* length of the video, in ticks
MaxLen  == 3        \* longest interval list fed to the merge functions
Limit == 3          \* the limit a function is throttled with, in ticks
MaxArg == 3         \* the distinct arguments a throttled function is called with
MaxCalls == 3       \* calls of a throttled function within one period
MaxRequests == 4    \* requestFn calls made through deduplicatedRequest

\* ---- program constants ---------------------------------------------------
MAX_PLAYBACK_RATE    == 2     \* 2.0x
GAP_THRESHOLD        == 2     \* 1.0 s in ticks
COMPLETION_THRESHOLD == 98    \* 0.98, as a percentage
TAU                  == 1     \* 0.5 s in ticks, the literal in the merge loops
SAVE_DEBOUNCE_MS     == 10    \* 5000 ms in ticks

Times == 0 .. MaxTime
\* the code only compares the rate with the limit: the limit itself stands
\* for the allowed rates, the next one for the rates above it
Rates == {MAX_PLAYBACK_RATE, MAX_PLAYBACK_RATE + 1}
Max(a, b) == IF a >= b THEN a ELSE b

VARIABLES
    \* the media element and the page
    elementPresent,       \* document.querySelector('video') finds an element
    playbackRate,         \* videoElement.playbackRate
    \* the page script's reference to its tracker
    held,                 \* videoTracker !== null
    \* fields of the VideoTracker object
    videoElement,         \* this.videoElement !== null
    duration,
    watchedSegments,
    lastRecordedTime,
    currentSegmentStart,
    isTracking,
    saveTimeout,          \* this.saveTimeout holds a timer id
    isComplete,
    speedWarningShown,
    isSpeedExceeded,
    \* progress of the asynchronous init()
    initPc,               \* "none", "retry", "loading", "ready", "failed"
    listening,            \* attachListeners() has run and detachListeners() has not
    pendingLoad,          \* the record the pending getProgress() will deliver
    pendingTimers,        \* the timers of scheduleSave() that are started and have
                          \* neither fired nor been cleared
    \* the durable record of the video
    store,
    \* history
    event,                \* the latest step, if it was a skip or a merge on its own,
                          \* or the toast that a rate-change showed
    saves,                \* the saveProgressNow() calls of the latest step
    published,            \* the 'progress-updated' snapshots of the latest step
    toasts,               \* completion notifications shown by this tracker
    seed,                 \* "none", "empty", "incomplete", "complete": what init loaded
    run,                  \* the unbroken run of time-updates since a fresh attach
    excursion,            \* the playhead range passed while the speed was exceeded
    rateRun,              \* the latest 'ratechange' this tracker handled had a
                          \* rate above the limit
    \* the merge functions exercised on their own: the list and the result
    L,
    M,
    \* store writes that do not land
    outage,               \* the writes of saveProgress() fail at present
    twinStore,            \* the stored record had every write of this tracker landed
    twinLoad,             \* what the pending getProgress() would deliver in that case
    \* the two backends of storageUtils.ts, exercised on their own
    chromeApi,            \* typeof chrome !== 'undefined' && chrome.storage.local
    chromeArea,           \* chrome.storage.local, per videoId
    localArea,            \* localStorage, per videoId
    got,                  \* how the latest getProgress() settled
    lastSaved,            \* per videoId, the record of the latest saveProgress(), or
                          \* none once the cache missed a write or was corrupted, or
                          \* the record was cleared
    cleared,              \* the videoIds last written by a resolved clearProgress()
    \* the two owners of a tracker, exercised on their own
    location,             \* getVideoIdFromUrl(): a videoId, or "none" for null
    studyModeActive,      \* body has the class 'youtube-study-mode-active'
    managerVideoTracker,  \* StudyModeManager: this.videoTracker
    managerCurrentVideoId,\* StudyModeManager: this.currentVideoId
    scriptVideoTracker,   \* index.tsx: videoTracker
    scriptCurrentVideoId, \* index.tsx: currentVideoId
    pendingHandlers,      \* the owners' handlers that are scheduled and have not
                          \* run, in the order they were scheduled
    \* the clocks of the debounced save, exercised on its own
    timerAge,             \* ticks since the pending timer of scheduleSave() was started
    quiet,                \* ticks since the latest scheduleSave() call, up to
                          \* SAVE_DEBOUNCE_MS
    \* the retry of init(), exercised on its own
    retries,              \* the 500 ms retries of init() that found no element
    \* utils.ts: one function wrapped by throttle(fn, limit)
    inThrottle,           \* throttle: inThrottle
    lastArgs,             \* throttle: lastArgs, or NoArgs for null
    throttleAge,          \* ticks since the pending timer of the wrapper was
                          \* started, or -1 when there is none
    sinceRun,             \* ticks since fn last ran, up to Limit
    ran,                  \* the arguments fn was applied to in the latest step
    periodCalls,          \* the arguments of the calls made since the pending
                          \* timer was started, in order
    \* utils.ts: deduplicatedRequest
    pendingRequests,      \* the Map: for each key its promise, or NoPromise
    inFlight,             \* the requestFn calls that have not settled
    issued,               \* the number of requestFn calls so far
    returned              \* what the latest deduplicatedRequest call returned

trackerVars == <<videoElement, duration, watchedSegments, lastRecordedTime,
                 currentSegmentStart, isTracking, saveTimeout, pendingTimers, isComplete,
                 speedWarningShown, isSpeedExceeded>>
twinVars == <<twinStore, twinLoad>>
storageVars == <<chromeApi, chromeArea, localArea, got, lastSaved, cleared>>
ownerVars == <<location, studyModeActive, managerVideoTracker,
               managerCurrentVideoId, scriptVideoTracker, scriptCurrentVideoId,
               pendingHandlers>>
clockVars == <<timerAge, quiet>>
initVars == <<retries>>
rateVars == <<rateRun>>
utilVars == <<inThrottle, lastArgs, throttleAge, sinceRun, ran, periodCalls,
              pendingRequests, inFlight, issued, returned>>
vars == <<elementPresent, playbackRate, held, videoElement, duration,
          watchedSegments, lastRecordedTime, currentSegmentStart, isTracking,
          saveTimeout, pendingTimers, isComplete, speedWarningShown, isSpeedExceeded,
          initPc, listening, pendingLoad, store, event, saves, published,
          toasts, seed,
          run, excursion, L, M, outage, twinStore, twinLoad, chromeApi,
          chromeArea, localArea, got, lastSaved, cleared, location,
          studyModeActive, managerVideoTracker, managerCurrentVideoId,
          scriptVideoTracker, scriptCurrentVideoId, pendingHandlers,
          timerAge, quiet, retries, rateRun, inThrottle, lastArgs,
          throttleAge, sinceRun, ran, periodCalls, pendingRequests, inFlight,
          issued, returned>>

\* ---- interval lists -------------------------------------------------------

\* variant of sortByStart: the list is left in the order it came in
sortByStartAbsent(segments) == segments

\* Array.prototype.sort with (a, b) => a[0] - b[0]: stable, ascending by start
RECURSIVE insertByStart(_, _)
insertByStart(sorted, x) ==
    IF sorted = <<>> THEN <<x>>
    ELSE IF x[1] < Head(sorted)[1] THEN <<x>> \o sorted
    ELSE <<Head(sorted)>> \o insertByStart(Tail(sorted), x)

RECURSIVE sortByStart(_)
sortByStart(segments) ==
    IF segments = <<>> THEN <<>>
    ELSE insertByStart(sortByStart(SubSeq(segments, 1, Len(segments) - 1)),
                       segments[Len(segments)])

\* index, in the unsorted list, of the element that the sort puts first
firstIndex(segments) ==
    CHOOSE i \in DOMAIN segments :
        \A j \in DOMAIN segments :
            \/ segments[j][1] > segments[i][1]
            \/ (segments[j][1] = segments[i][1] /\ j >= i)

\* variant of mergeSegmentsLoop: the next interval is compared with the one
\* before it in the sorted list instead of with the last merged interval
RECURSIVE mergeSegmentsLoopPrevious(_, _, _)
mergeSegmentsLoopPrevious(sorted, i, merged) ==
    IF i > Len(sorted) THEN merged
    ELSE LET last == merged[Len(merged)]
             current == sorted[i]
         IN  IF current[1] <= sorted[i - 1][2] + TAU
             THEN mergeSegmentsLoopPrevious(sorted, i + 1,
                      [merged EXCEPT ![Len(merged)][2] = Max(last[2], current[2])])
             ELSE mergeSegmentsLoopPrevious(sorted, i + 1, Append(merged, current))

\* variant of mergeSegmentsLoop: an interval that begins exactly TAU after the
\* last merged one is kept apart
RECURSIVE mergeSegmentsLoopStrict(_, _, _)
mergeSegmentsLoopStrict(sorted, i, merged) ==
    IF i > Len(sorted) THEN merged
    ELSE LET last == merged[Len(merged)]
             current == sorted[i]
         IN  IF current[1] < last[2] + TAU
             THEN mergeSegmentsLoopStrict(sorted, i + 1,
                      [merged EXCEPT ![Len(merged)][2] = Max(last[2], current[2])])
             ELSE mergeSegmentsLoopStrict(sorted, i + 1, Append(merged, current))

\* the for loop of mergeSegments
RECURSIVE mergeSegmentsLoop(_, _, _)
mergeSegmentsLoop(sorted, i, merged) ==
    IF i > Len(sorted) THEN merged
    ELSE LET last == merged[Len(merged)]
             current == sorted[i]
         IN  IF current[1] <= last[2] + TAU
             THEN mergeSegmentsLoop(sorted, i + 1,
                      [merged EXCEPT ![Len(merged)][2] = Max(last[2], current[2])])
             ELSE mergeSegmentsLoop(sorted, i + 1, Append(merged, current))

\* this.watchedSegments after mergeSegments()
mergeSegments(ws) ==
    IF Len(ws) <= 1 THEN ws
    ELSE LET sorted == sortByStart(ws)
         IN  mergeSegmentsLoop(sorted, 2, <<sorted[1]>>)

\* the for loop of mergeSegmentsArray
RECURSIVE mergeSegmentsArrayLoop(_, _, _)
mergeSegmentsArrayLoop(sorted, i, merged) ==
    IF i > Len(sorted) THEN merged
    ELSE LET last == merged[Len(merged)]
         IN  IF sorted[i][1] <= last[2] + TAU
             THEN mergeSegmentsArrayLoop(sorted, i + 1,
                      [merged EXCEPT ![Len(merged)][2] = Max(last[2], sorted[i][2])])
             ELSE mergeSegmentsArrayLoop(sorted, i + 1, Append(merged, sorted[i]))

\* the value returned by mergeSegmentsArray(segments)
mergeSegmentsArray(segments) ==
    IF Len(segments) <= 1 THEN segments
    ELSE LET sorted == sortByStart(segments)
         IN  mergeSegmentsArrayLoop(sorted, 2, <<sorted[1]>>)

\* The elements of the argument after mergeSegmentsArray(segments) returned.
\* merged[0] is sorted[0] itself, not a copy, and `last[1] = ...` writes
\* through it; every later element of merged is a copy ([...sorted[i]]).
segmentsAfterMergeSegmentsArray(segments) ==
    IF Len(segments) <= 1 THEN segments
    ELSE [segments EXCEPT ![firstIndex(segments)][2] =
                              mergeSegmentsArray(segments)[1][2]]

RECURSIVE calculateTotalWatched(_)
calculateTotalWatched(ws) ==
    IF ws = <<>> THEN 0
    ELSE (Head(ws)[2] - Head(ws)[1]) + calculateTotalWatched(Tail(ws))


\* cells [c, c+1) of the time axis that the intervals of ws cover
Cells(ws) ==
    {c \in 0 .. MaxTime - 1 : \E i \in DOMAIN ws : ws[i][1] <= c /\ c < ws[i][2]}

\* ---- the store (storageUtils.ts) -------------------------------------------

\* getProgress() resolving to null
NoRecord ==
    [present |-> FALSE, watchedSegments |-> <<>>, isComplete |-> FALSE,
     totalWatched |-> 0, duration |-> 0]

\* the VideoProgress object that saveProgress() writes (lastUpdated left out)
VideoProgress(segments, complete, total, dur) ==
    [present |-> TRUE, watchedSegments |-> segments, isComplete |-> complete,
     totalWatched |-> total, duration |-> dur]

\* The tracker is modelled against one stored record, `store`: what
\* getProgress() delivers while both backends work and agree.  The backends
\* themselves, with their failures, are modelled below.
\* variant of written: the write has not reached the store when the next
\* read is issued
writtenLate(rec) == store

\* variant of lastIssued: the store ends up with the write issued first
firstIssued(recs) == recs[1]

\* saveProgress called several times in one handler: localStorage.setItem
\* runs inside the call and chrome.storage.local applies set() calls in the
\* order they were issued, so the store ends up with the last one
lastIssued(recs) == recs[Len(recs)]

\* saveProgress: the stored record after the call; during an outage neither
\* backend takes the write, and the call still resolves
written(rec) == IF outage THEN store ELSE rec

\* ---- the two backends (storageUtils.ts) ------------------------------------

\* two videos are enough to tell one key from another
VideoIds == {"v", "w"}

\* the records handed to saveProgress()
Records ==
    {VideoProgress(<< <<0, 1>> >>, FALSE, 1, MaxTime),
     VideoProgress(<< <<0, MaxTime>> >>, TRUE, MaxTime, MaxTime)}

\* localStorage.getItem(key): null, a JSON text, or a text that is not JSON
NoItem == <<>>
Corrupt == <<"text">>
stringify(data) == <<"json", data>>
parse(text) == text[2]

\* a promise of getProgress(): resolved with a value, or never settled
resolved(value) == [settled |-> TRUE, value |-> value]
Unsettled == [settled |-> FALSE, value |-> NoRecord]

\* the backends before the first call
storageIdle ==
    /\ chromeApi = TRUE
    /\ chromeArea = [id \in VideoIds |-> NoRecord]
    /\ localArea = [id \in VideoIds |-> NoItem]
    /\ got = Unsettled
    /\ lastSaved = [id \in VideoIds |-> NoRecord]
    /\ cleared = {}

\* variant of chromeSet: the new record is patched into the old one, which
\* keeps its completion flag
chromeSetPatched(area, key, data) ==
    [area EXCEPT ![key] =
        [data EXCEPT !.isComplete = data.isComplete \/ area[key].isComplete]]

\* chrome.storage.local.set({ [key]: data }) that succeeds
chromeSet(area, key, data) == [area EXCEPT ![key] = data]

\* getProgress(videoId): how the returned promise settles
getProgressResult(videoId, contextValid, lastError) ==
    IF contextValid
    THEN IF lastError
         THEN \* JSON.parse runs inside the chrome callback, outside any try:
              \* when it throws, resolve() is never called
              IF localArea[videoId] = NoItem THEN resolved(NoRecord)
              ELSE IF localArea[videoId] = Corrupt THEN Unsettled
              ELSE resolved(parse(localArea[videoId]))
         ELSE resolved(chromeArea[videoId])
    ELSE IF localArea[videoId] = NoItem \/ localArea[videoId] = Corrupt
         THEN resolved(NoRecord)
         ELSE resolved(parse(localArea[videoId]))

\* ---- the owners of a tracker (StudyModeManager.tsx, index.tsx) ---------------

\* getVideoIdFromUrl(): the v parameter of the location, or null
NoVideo == "none"
Locations == VideoIds \cup {NoVideo}

\* a VideoTracker as its owner sees it: destroys counts the destroy() calls
\* made on it, 2 standing for two or more
NoTracker == [videoId |-> NoVideo, destroys |-> -1]
newVideoTracker(videoId) == [videoId |-> videoId, destroys |-> 0]
destroyed(tracker) ==
    [tracker EXCEPT !.destroys = IF tracker.destroys >= 1 THEN 2 ELSE 1]

\* the owners before the first navigation
ownersIdle ==
    /\ location = NoVideo
    /\ studyModeActive = FALSE
    /\ managerVideoTracker = NoTracker
    /\ managerCurrentVideoId = NoVideo
    /\ scriptVideoTracker = NoTracker
    /\ scriptCurrentVideoId = NoVideo
    /\ pendingHandlers = <<>>

\* StudyModeManager.initializeTracker(): <<this.videoTracker,
\* this.currentVideoId>> when it returns
managerInitializeTracker(tracker, current, videoId, active) ==
    IF ~active THEN <<tracker, current>>
    ELSE IF videoId = current /\ tracker # NoTracker THEN <<tracker, current>>
    ELSE LET afterDestroy == IF tracker # NoTracker THEN destroyed(tracker)
                             ELSE tracker
         IN  IF videoId # NoVideo THEN <<newVideoTracker(videoId), videoId>>
             ELSE <<afterDestroy, current>>

\* index.tsx initializeTracker(): <<videoTracker, currentVideoId>> when it returns
scriptInitializeTracker(tracker, current, videoId, active) ==
    IF ~active THEN <<tracker, current>>
    ELSE IF videoId = current /\ tracker # NoTracker THEN <<tracker, current>>
    ELSE LET afterDestroy == IF tracker # NoTracker /\ videoId # current
                             THEN NoTracker ELSE tracker
         IN  IF videoId # NoVideo /\ afterDestroy = NoTracker
             THEN <<newVideoTracker(videoId), videoId>>
             ELSE <<afterDestroy, current>>

\* destroyTracker(), the same in both owners
destroyTracker(tracker, current) ==
    IF tracker # NoTracker THEN <<NoTracker, NoVideo>> ELSE <<tracker, current>>

\* ---- pieces of the handlers --------------------------------------------------

\* variant of openNonEmpty: an interval that starts at 0 counts as unset
openNonEmptyPositiveStart(cs, lrt) == cs > 0 /\ lrt > cs

\* the open interval [currentSegmentStart, lastRecordedTime] is not empty
openNonEmpty(cs, lrt) == cs >= 0 /\ lrt > cs

\* variant of closeSegment: the interval is pushed and the merge is not run
closeSegmentUnmerged(ws, cs, lrt) ==
    IF openNonEmpty(cs, lrt) THEN Append(ws, <<cs, lrt>>) ELSE ws

\* `if (open interval non-empty) { push; mergeSegments() }`
closeSegment(ws, cs, lrt) ==
    IF openNonEmpty(cs, lrt) THEN mergeSegments(Append(ws, <<cs, lrt>>)) ELSE ws

\* variant of segmentsToSave: the open interval is left out of the snapshot
segmentsToSaveClosedOnly(ws, cs, lrt) == ws

\* saveProgressNow: the list handed to mergeSegmentsArray
segmentsToSave(ws, cs, lrt) ==
    IF openNonEmpty(cs, lrt) THEN Append(ws, <<cs, lrt>>) ELSE ws

\* saveProgressNow: the record handed to saveProgress
savedRecord(ws, cs, lrt, complete, dur) ==
    LET tempSegments == mergeSegmentsArray(segmentsToSave(ws, cs, lrt))
    IN  VideoProgress(tempSegments, complete,
                      calculateTotalWatched(tempSegments), dur)

\* saveProgressNow: this.watchedSegments once the call has returned.
\* segmentsToSave is a shallow copy, so its first Len(ws) elements are the
\* very arrays held by this.watchedSegments.
segmentsAfterSave(ws, cs, lrt) ==
    SubSeq(segmentsAfterMergeSegmentsArray(segmentsToSave(ws, cs, lrt)), 1, Len(ws))

\* history entry of one saveProgressNow call: who called it, the open interval
\* the handler started with, the tracker's state at the call, the tracker's
\* segment set after the call, and the record written
saveEntry(by, open, ws, cs, lrt, complete, dur) ==
    [by |-> by, open |-> open, closed |-> ws, start |-> cs, last |-> lrt,
     after  |-> segmentsAfterSave(ws, cs, lrt),
     rec    |-> savedRecord(ws, cs, lrt, complete, dur)]

\* variant of timersAfterScheduleSave: the `if (this.saveTimeout) return` is
\* missing
timersAfterScheduleSaveUnguarded(handle, timers) == timers + 1

\* variant of timersAfterScheduleSave: no timer is started
timersAfterScheduleSaveAbsent(handle, timers) == timers

\* scheduleSave(): the pending timers afterwards; handle is this.saveTimeout
timersAfterScheduleSave(handle, timers) ==
    IF handle THEN timers ELSE timers + 1

\* saveProgressNow(): `if (this.saveTimeout) clearTimeout(this.saveTimeout)`
timersAfterClearTimeout(handle, timers) ==
    IF handle THEN timers - 1 ELSE timers

\* variant of timerAgeAfterScheduleSave: every request restarts the timer
timerAgeAfterScheduleSaveRestarted(handle, age) == 0

\* scheduleSave(): the age of the pending timer afterwards; a timer is
\* started only when none is pending
timerAgeAfterScheduleSave(handle, age) == IF handle THEN age ELSE 0

\* no timer is pending and no save has been requested
clocksIdle ==
    /\ timerAge = 0
    /\ quiet = SAVE_DEBOUNCE_MS

\* utils.ts before any call: throttle() has just wrapped fn, the module's
\* pendingRequests map is empty
NoArgs == 0
Args == 1 .. MaxArg
Keys == {"k1", "k2"}
NoPromise == 0
utilsIdle ==
    /\ inThrottle = FALSE
    /\ lastArgs = NoArgs
    /\ throttleAge = -1
    /\ sinceRun = Limit
    /\ ran = <<>>
    /\ periodCalls = <<>>
    /\ pendingRequests = [key \in Keys |-> NoPromise]
    /\ inFlight = {}
    /\ issued = 0
    /\ returned = NoPromise

\* variant of checkCompletionFires: the isComplete guard is missing
checkCompletionFiresAgain(complete, ws, dur) ==
    /\ dur > 0
    /\ calculateTotalWatched(ws) * 100 >= COMPLETION_THRESHOLD * dur

\* checkCompletion: it marks the video complete
checkCompletionFires(complete, ws, dur) ==
    /\ ~(complete \/ dur <= 0)
    /\ calculateTotalWatched(ws) * 100 >= COMPLETION_THRESHOLD * dur

\* variant of percentComplete: the result is not capped
percentCompleteUncapped(totalWatched, dur) ==
    IF dur > 0 THEN <<totalWatched * 100, dur>> ELSE <<0, 1>>

\* `duration > 0 ? (totalWatched / duration) * 100 : 0` under Math.min(., 100),
\* as the fraction <<numerator, denominator>>: the quotient is not an integer
percentComplete(totalWatched, dur) ==
    IF dur > 0
    THEN IF totalWatched * 100 <= 100 * dur
         THEN <<totalWatched * 100, dur>>
         ELSE <<100, 1>>
    ELSE <<0, 1>>

\* getState(): the snapshot handed to the caller; emitProgressUpdate()
\* publishes the same fields in 'progress-updated'
getState ==
    [duration        |-> duration,
     watchedSegments |-> watchedSegments,
     totalWatched    |-> calculateTotalWatched(watchedSegments),
     percentComplete |-> percentComplete(calculateTotalWatched(watchedSegments),
                                         duration),
     isComplete      |-> isComplete]

\* ---- history variables --------------------------------------------------------

\* run is <<>> at a fresh attach, <<t0, ..., tn>> while only time-updates with
\* gaps inside (0, GAP_THRESHOLD) have been handled, <<-2, t0, ..., tn>> once
\* that run has been finalized, and Broken otherwise; but for playback that
\* goes on after a pause: <<-3, a>> while time-updates at an allowed rate
\* have advanced from a, the first sample after the pause or ended event,
\* with gaps inside (0, GAP_THRESHOLD), and <<-4, a, b>> once pause, ended
\* or destroy has followed them at b
Broken == <<-1>>
runActive == Len(run) >= 1 /\ run[1] >= 0
finalizedRun == IF runActive THEN <<-2>> \o run ELSE Broken
\* the latest step was a pause or ended event
afterPause == saves # <<>> /\ saves[1].by \in {"pause", "ended"}
resumedActive == Len(run) = 2 /\ run[1] = -3
resumedRun(currentTime, advancing) ==
    IF afterPause /\ playbackRate <= MAX_PLAYBACK_RATE THEN <<-3, currentTime>>
    ELSE IF resumedActive /\ advancing THEN run
    ELSE Broken
finalizedResumedRun ==
    IF resumedActive THEN <<-4, run[2], lastRecordedTime>> ELSE finalizedRun
\* a later open interval that starts before the end of the excursion ends it
keepExcursion(cs2) ==
    IF Len(excursion) = 2 /\ cs2 >= 0 /\ cs2 < excursion[2] THEN <<>> ELSE excursion

\* ---- initial state ------------------------------------------------------------

Init ==
    /\ elementPresent \in BOOLEAN
    /\ playbackRate = MAX_PLAYBACK_RATE
    /\ held = FALSE
    /\ videoElement = FALSE
    /\ duration = 0
    /\ watchedSegments = <<>>
    /\ lastRecordedTime = -1
    /\ currentSegmentStart = -1
    /\ isTracking = FALSE
    /\ saveTimeout = FALSE
    /\ pendingTimers = 0
    /\ isComplete = FALSE
    /\ speedWarningShown = FALSE
    /\ isSpeedExceeded = FALSE
    /\ initPc = "none"
    /\ listening = FALSE
    /\ pendingLoad = NoRecord
    /\ store = NoRecord
    /\ event = <<>>
    /\ saves = <<>>
    /\ published = <<>>
    /\ toasts = 0
    /\ seed = "none"
    /\ run = Broken
    /\ excursion = <<>>
    /\ L = <<>>
    /\ M = <<>>
    /\ outage = FALSE
    /\ twinStore = NoRecord
    /\ twinLoad = NoRecord
    /\ storageIdle
    /\ ownersIdle
    /\ clocksIdle
    /\ retries = 0
    /\ rateRun = FALSE
    /\ utilsIdle

\* ---- the page ------------------------------------------------------------------

\* the page finishes rendering its media element
ElementAppears ==
    /\ ~elementPresent
    /\ elementPresent' = TRUE
    /\ event' = <<>>
    /\ saves' = <<>>
    /\ published' = <<>>
    /\ UNCHANGED twinVars
    /\ UNCHANGED <<playbackRate, held, trackerVars, initPc, listening,
                   pendingLoad, store, toasts, seed, run, excursion, L, M, outage,
                   storageVars, ownerVars, clockVars, initVars, rateVars, utilVars>>

\* new VideoTracker(videoId): the constructor and init() up to its first wait
Construct ==
    /\ ~held
    /\ held' = TRUE
    /\ duration' = 0
    /\ watchedSegments' = <<>>
    /\ lastRecordedTime' = -1
    /\ currentSegmentStart' = -1
    /\ isTracking' = FALSE
    /\ saveTimeout' = FALSE
    /\ pendingTimers' = 0
    /\ isComplete' = FALSE
    /\ speedWarningShown' = FALSE
    /\ isSpeedExceeded' = FALSE
    /\ listening' = FALSE
    /\ videoElement' = elementPresent
    /\ initPc' = IF elementPresent THEN "loading" ELSE "retry"
    /\ pendingLoad' = IF elementPresent THEN store ELSE NoRecord
    /\ event' = <<>>
    /\ saves' = <<>>
    /\ published' = <<>>
    /\ toasts' = 0
    /\ seed' = "none"
    /\ run' = Broken
    /\ excursion' = <<>>
    /\ twinStore' = store
    /\ twinLoad' = IF elementPresent THEN store ELSE NoRecord
    /\ retries' = 0
    /\ rateRun' = FALSE
    /\ UNCHANGED <<elementPresent, playbackRate, store, L, M, outage,
                   storageVars, ownerVars, clockVars, utilVars>>

\* variant of InitRetry: init() is not retried, the tracker stays as it is
InitRetryAbandoned ==
    /\ initPc = "retry"
    /\ elementPresent
    /\ initPc' = "failed"
    /\ event' = <<>>
    /\ saves' = <<>>
    /\ published' = <<>>
    /\ UNCHANGED twinVars
    /\ UNCHANGED <<elementPresent, playbackRate, held, trackerVars, listening,
                   pendingLoad, store, toasts, seed, run, excursion, L, M, outage,
                   storageVars, ownerVars, clockVars, initVars, rateVars, utilVars>>

\* the 500 ms retry of init() finds the element and starts loading
InitRetry ==
    /\ initPc = "retry"
    /\ elementPresent
    /\ videoElement' = TRUE
    /\ initPc' = "loading"
    /\ pendingLoad' = store
    /\ event' = <<>>
    /\ saves' = <<>>
    /\ published' = <<>>
    /\ twinLoad' = twinStore
    /\ UNCHANGED twinStore
    /\ UNCHANGED <<elementPresent, playbackRate, held, duration, watchedSegments,
                   lastRecordedTime, currentSegmentStart, isTracking, saveTimeout, pendingTimers,
                   isComplete, speedWarningShown, isSpeedExceeded, listening,
                   store, toasts, seed, run, excursion, L, M, outage,
                   storageVars, ownerVars, clockVars, initVars, rateVars, utilVars>>

\* variant of watchedSegmentsAfterLoad: the record that was read is not used
watchedSegmentsAfterLoadUnseeded(progress, segments) == segments

\* loadProgress(): `if (progress) this.watchedSegments = progress.watchedSegments`
watchedSegmentsAfterLoad(progress, segments) ==
    IF progress.present THEN progress.watchedSegments ELSE segments

\* loadProgress(): `if (progress) this.isComplete = progress.isComplete`
isCompleteAfterLoad(progress, complete) ==
    IF progress.present THEN progress.isComplete ELSE complete

\* getProgress() resolves: loadProgress() and the rest of init()
LoadComplete ==
    /\ initPc = "loading"
    /\ watchedSegments' = watchedSegmentsAfterLoad(pendingLoad, watchedSegments)
    /\ isComplete' = isCompleteAfterLoad(pendingLoad, isComplete)
    /\ seed' = IF ~pendingLoad.present THEN "empty"
               ELSE IF pendingLoad.isComplete THEN "complete" ELSE "incomplete"
    /\ pendingLoad' = NoRecord
    /\ event' = <<>>
    /\ saves' = <<>>
    /\ IF videoElement
       THEN /\ \E metadataReady \in BOOLEAN :
                  duration' = IF metadataReady THEN MaxTime ELSE duration
            /\ listening' = TRUE
            /\ isTracking' = TRUE
            /\ initPc' = "ready"
            /\ run' = IF ~pendingLoad.present /\ playbackRate <= MAX_PLAYBACK_RATE
                      THEN <<>> ELSE Broken
       ELSE \* destroy() has cleared this.videoElement: readyState of null throws
            /\ initPc' = "failed"
            /\ UNCHANGED <<duration, listening, isTracking, run>>
    /\ twinLoad' = NoRecord
    /\ UNCHANGED twinStore
    /\ UNCHANGED <<elementPresent, playbackRate, held, videoElement,
                   lastRecordedTime, currentSegmentStart, saveTimeout, pendingTimers,
                   speedWarningShown, isSpeedExceeded, store, toasts,
                   excursion, L, M, outage,
                   storageVars, ownerVars, clockVars, initVars, rateVars, utilVars>>
    /\ published' = IF videoElement THEN <<getState'>> ELSE <<>>


\* ---- media events ---------------------------------------------------------------

\* variant of timeUpdateIgnored: the speed check is missing
timeUpdateIgnoredSpeedUnchecked ==
    ~videoElement \/ ~isTracking \/ isComplete

\* variant of timeUpdateIgnored: the completion check is missing
timeUpdateIgnoredCompleteUnchecked ==
    (~videoElement \/ ~isTracking) \/ isSpeedExceeded

\* handleTimeUpdate: the two early returns
timeUpdateIgnored ==
    (~videoElement \/ ~isTracking \/ isComplete) \/ isSpeedExceeded

\* 'timeupdate' with videoElement.currentTime = currentTime
TimeUpdate(currentTime) ==
    /\ listening
    /\ saves' = <<>>
    /\ published' = <<>>
    /\ IF timeUpdateIgnored
       THEN /\ event' = <<>>
            /\ run' = Broken
            /\ UNCHANGED <<watchedSegments, lastRecordedTime,
                           currentSegmentStart, saveTimeout, pendingTimers, excursion>>
       ELSE IF lastRecordedTime < 0
       THEN /\ lastRecordedTime' = currentTime
            /\ currentSegmentStart' = currentTime
            /\ event' = <<>>
            /\ run' = IF run = <<>> THEN <<currentTime>>
                      ELSE resumedRun(currentTime, FALSE)
            /\ excursion' = keepExcursion(currentTime)
            /\ UNCHANGED <<watchedSegments, saveTimeout, pendingTimers>>
       ELSE LET gap == currentTime - lastRecordedTime
            IN  /\ IF gap > 0 /\ gap < GAP_THRESHOLD
                   THEN /\ lastRecordedTime' = currentTime
                        /\ event' = <<>>
                        /\ run' = IF runActive THEN Append(run, currentTime)
                                  ELSE resumedRun(currentTime, TRUE)
                        /\ UNCHANGED <<watchedSegments, currentSegmentStart,
                                       excursion>>
                   ELSE IF gap >= GAP_THRESHOLD \/ gap < 0
                   THEN /\ watchedSegments' =
                               closeSegment(watchedSegments, currentSegmentStart,
                                            lastRecordedTime)
                        /\ currentSegmentStart' = currentTime
                        /\ lastRecordedTime' = currentTime
                        /\ event' = <<"skip">>
                        /\ run' = resumedRun(currentTime, FALSE)
                        /\ excursion' = keepExcursion(currentTime)
                   ELSE /\ event' = <<>>
                        /\ run' = resumedRun(currentTime, FALSE)
                        /\ UNCHANGED <<watchedSegments, currentSegmentStart,
                                       lastRecordedTime, excursion>>
                /\ saveTimeout' = TRUE          \* scheduleSave()
                /\ pendingTimers' = timersAfterScheduleSave(saveTimeout, pendingTimers)
    /\ UNCHANGED twinVars
    /\ UNCHANGED <<elementPresent, playbackRate, held, videoElement, duration,
                   isTracking, isComplete, speedWarningShown, isSpeedExceeded,
                   initPc, listening, pendingLoad, store, toasts, seed, L, M, outage,
                   storageVars, ownerVars, clockVars, initVars, rateVars, utilVars>>

\* variant of seekedSnapshots: handleSeeked publishes nothing
seekedSnapshotsNone(state) == <<>>

\* handleSeeked: the snapshots it publishes; state is the tracker's state when
\* the handler reaches emitProgressUpdate()
seekedSnapshots(state) == <<state>>

\* 'seeked' with videoElement.currentTime = currentTime
Seeked(currentTime) ==
    /\ listening
    /\ videoElement
    /\ watchedSegments' =
           closeSegment(watchedSegments, currentSegmentStart, lastRecordedTime)
    /\ currentSegmentStart' = currentTime
    /\ lastRecordedTime' = currentTime
    /\ event' = <<>>
    /\ saves' = <<>>
    /\ run' = Broken
    /\ excursion' = IF Len(excursion) = 1 THEN <<>> ELSE keepExcursion(currentTime)
    /\ UNCHANGED twinVars
    /\ UNCHANGED <<elementPresent, playbackRate, held, videoElement, duration,
                   isTracking, saveTimeout, pendingTimers, isComplete, speedWarningShown,
                   isSpeedExceeded, initPc, listening, pendingLoad, store,
                   toasts, seed, L, M, outage,
                   storageVars, ownerVars, clockVars, initVars, rateVars, utilVars>>
    /\ published' = seekedSnapshots(getState')

\* variant of rateChangeToast: the warning is shown on every rate above the limit
rateChangeToastRepeated(rate, exceeded, shown) ==
    IF rate > MAX_PLAYBACK_RATE THEN <<"warning">>
    ELSE IF exceeded THEN <<"resumed">> ELSE <<>>

\* handleRateChange: the toast it shows, if any; exceeded is
\* this.isSpeedExceeded and shown is this.speedWarningShown
rateChangeToast(rate, exceeded, shown) ==
    IF rate > MAX_PLAYBACK_RATE
    THEN IF ~shown THEN <<"warning">> ELSE <<>>
    ELSE IF exceeded THEN <<"resumed">> ELSE <<>>

\* the playback rate is set to rate; 'ratechange' is delivered if the
\* listeners are attached, and reads the playhead only when it resumes tracking
RateChange(rate) ==
    /\ playbackRate' = rate
    /\ event' = IF listening /\ videoElement
                THEN rateChangeToast(rate, isSpeedExceeded, speedWarningShown)
                ELSE <<>>
    /\ rateRun' = IF listening /\ videoElement
                  THEN rate > MAX_PLAYBACK_RATE ELSE rateRun
    /\ saves' = <<>>
    /\ published' = <<>>
    /\ run' = IF /\ listening /\ videoElement
                 /\ rate > MAX_PLAYBACK_RATE /\ ~isSpeedExceeded
              THEN finalizedRun ELSE Broken
    /\ IF ~listening \/ ~videoElement
       THEN UNCHANGED <<watchedSegments, currentSegmentStart, lastRecordedTime,
                        isSpeedExceeded, speedWarningShown, excursion>>
       ELSE IF rate > MAX_PLAYBACK_RATE
       THEN /\ IF ~isSpeedExceeded
               THEN /\ watchedSegments' =
                           closeSegment(watchedSegments, currentSegmentStart,
                                        lastRecordedTime)
                    /\ currentSegmentStart' = -1
                    /\ isSpeedExceeded' = TRUE
                    /\ excursion' = <<lastRecordedTime>>
               ELSE UNCHANGED <<watchedSegments, currentSegmentStart,
                                isSpeedExceeded, excursion>>
            /\ speedWarningShown' = TRUE
            /\ UNCHANGED lastRecordedTime
       ELSE /\ IF isSpeedExceeded
               THEN \E currentTime \in Times :
                    /\ isSpeedExceeded' = FALSE
                    /\ currentSegmentStart' = currentTime
                    /\ lastRecordedTime' = currentTime
                    /\ excursion' =
                         IF /\ Len(excursion) = 1
                            /\ excursion[1] < currentTime
                            /\ (excursion[1] .. currentTime - 1)
                                   \cap Cells(watchedSegments) = {}
                         THEN <<excursion[1], currentTime>>
                         ELSE <<>>
               ELSE UNCHANGED <<isSpeedExceeded, currentSegmentStart,
                                lastRecordedTime, excursion>>
            /\ speedWarningShown' = FALSE
            /\ UNCHANGED watchedSegments
    /\ UNCHANGED twinVars
    /\ UNCHANGED <<elementPresent, held, videoElement, duration, isTracking,
                   saveTimeout, pendingTimers, isComplete, initPc, listening, pendingLoad,
                   store, toasts, seed, L, M, outage,
                   storageVars, ownerVars, clockVars, initVars, utilVars>>

\* 'pause'
Pause ==
    /\ listening
    /\ event' = <<>>
    /\ LET ws1 == closeSegment(watchedSegments, currentSegmentStart, lastRecordedTime)
           e   == saveEntry("pause", <<currentSegmentStart, lastRecordedTime>>,
                            ws1, -1, lastRecordedTime, isComplete, duration)
       IN  /\ watchedSegments' = e.after
           /\ store' = written(e.rec)
           /\ twinStore' = e.rec
           /\ saves' = <<e>>
    /\ currentSegmentStart' = -1
    /\ saveTimeout' = FALSE
    /\ pendingTimers' = timersAfterClearTimeout(saveTimeout, pendingTimers)
    /\ run' = finalizedResumedRun
    /\ UNCHANGED twinLoad
    /\ UNCHANGED <<elementPresent, playbackRate, held, videoElement, duration,
                   lastRecordedTime, isTracking, isComplete, speedWarningShown,
                   isSpeedExceeded, initPc, listening, pendingLoad, toasts,
                   seed, excursion, L, M, outage,
                   storageVars, ownerVars, clockVars, initVars, rateVars, utilVars>>
    /\ published' = <<getState'>>

\* 'ended'
Ended ==
    /\ listening
    /\ event' = <<>>
    /\ LET open == <<currentSegmentStart, lastRecordedTime>>
           ws1 == closeSegment(watchedSegments, currentSegmentStart, lastRecordedTime)
           e1  == saveEntry("ended", open, ws1, -1, lastRecordedTime,
                            isComplete, duration)
           e2  == saveEntry("completion", open, e1.after, -1, lastRecordedTime,
                            TRUE, duration)
       IN  IF checkCompletionFires(isComplete, e1.after, duration)
           THEN /\ isComplete' = TRUE
                /\ watchedSegments' = e2.after
                /\ store' = written(lastIssued(<<e1.rec, e2.rec>>))
                /\ twinStore' = e2.rec
                /\ saves' = <<e1, e2>>
                /\ toasts' = toasts + 1
           ELSE /\ watchedSegments' = e1.after
                /\ store' = written(e1.rec)
                /\ twinStore' = e1.rec
                /\ saves' = <<e1>>
                /\ UNCHANGED <<isComplete, toasts>>
    /\ currentSegmentStart' = -1
    /\ saveTimeout' = FALSE
    /\ pendingTimers' = timersAfterClearTimeout(saveTimeout, pendingTimers)
    /\ run' = finalizedResumedRun
    /\ UNCHANGED twinLoad
    /\ UNCHANGED <<elementPresent, playbackRate, held, videoElement, duration,
                   lastRecordedTime, isTracking, speedWarningShown,
                   isSpeedExceeded, initPc, listening, pendingLoad, seed,
                   excursion, L, M, outage,
                   storageVars, ownerVars, clockVars, initVars, rateVars, utilVars>>
    /\ published' = IF Len(saves') = 2 THEN <<getState', getState', getState'>>
                  ELSE <<getState'>>

\* 'loadedmetadata'
LoadedMetadata ==
    /\ listening
    /\ videoElement
    /\ duration' = MaxTime
    /\ event' = <<>>
    /\ saves' = <<>>
    /\ UNCHANGED twinVars
    /\ UNCHANGED <<elementPresent, playbackRate, held, videoElement,
                   watchedSegments, lastRecordedTime, currentSegmentStart,
                   isTracking, saveTimeout, pendingTimers, isComplete, speedWarningShown,
                   isSpeedExceeded, initPc, listening, pendingLoad, store,
                   toasts, seed, run, excursion, L, M, outage,
                   storageVars, ownerVars, clockVars, initVars, rateVars, utilVars>>
    /\ published' = <<getState'>>

\* the debounced-save timer of scheduleSave() fires
SaveTimerFires ==
    /\ pendingTimers > 0
    /\ event' = <<>>
    /\ LET e == saveEntry("timer", <<currentSegmentStart, lastRecordedTime>>,
                          watchedSegments, currentSegmentStart, lastRecordedTime,
                          isComplete, duration)
       IN  /\ watchedSegments' = e.after
           /\ store' = written(e.rec)
           /\ twinStore' = e.rec
           /\ saves' = <<e>>
    /\ saveTimeout' = FALSE
    /\ pendingTimers' = pendingTimers - 1
    /\ UNCHANGED twinLoad
    /\ UNCHANGED <<elementPresent, playbackRate, held, videoElement, duration,
                   lastRecordedTime, currentSegmentStart, isTracking, isComplete,
                   speedWarningShown, isSpeedExceeded, initPc, listening,
                   pendingLoad, toasts, seed, run, excursion, L, M, outage,
                   storageVars, ownerVars, clockVars, initVars, rateVars, utilVars>>
    /\ published' = <<getState'>>

\* variant of Destroy: the teardown closes the interval but writes nothing
DestroyWithoutFlush ==
    /\ held
    /\ held' = FALSE
    /\ isTracking' = FALSE
    /\ event' = <<>>
    /\ watchedSegments' =
           closeSegment(watchedSegments, currentSegmentStart, lastRecordedTime)
    /\ saves' = <<>>
    /\ published' = <<>>
    /\ currentSegmentStart' = -1
    /\ listening' = IF videoElement THEN FALSE ELSE listening
    /\ saveTimeout' = FALSE
    /\ pendingTimers' = timersAfterClearTimeout(saveTimeout, pendingTimers)
    /\ videoElement' = FALSE
    /\ run' = Broken
    /\ UNCHANGED twinVars
    /\ UNCHANGED <<elementPresent, playbackRate, duration, lastRecordedTime,
                   isComplete, speedWarningShown, isSpeedExceeded, initPc,
                   pendingLoad, store, toasts, seed, excursion, L, M, outage,
                   storageVars, ownerVars, clockVars, initVars, rateVars, utilVars>>

\* destroy(), called by the page script, which then drops its reference
Destroy ==
    /\ held
    /\ held' = FALSE
    /\ isTracking' = FALSE
    /\ event' = <<>>
    /\ LET ws1 == closeSegment(watchedSegments, currentSegmentStart, lastRecordedTime)
           e   == saveEntry("destroy", <<currentSegmentStart, lastRecordedTime>>,
                            ws1, -1, lastRecordedTime, isComplete, duration)
       IN  /\ watchedSegments' = e.after
           /\ store' = written(e.rec)
           /\ twinStore' = e.rec
           /\ saves' = <<e>>
    /\ currentSegmentStart' = -1
    /\ listening' = IF videoElement THEN FALSE ELSE listening
    /\ saveTimeout' = FALSE
    /\ pendingTimers' = timersAfterClearTimeout(saveTimeout, pendingTimers)
    /\ videoElement' = FALSE
    /\ run' = finalizedResumedRun
    /\ UNCHANGED twinLoad
    /\ UNCHANGED <<elementPresent, playbackRate, duration, lastRecordedTime,
                   isComplete, speedWarningShown, isSpeedExceeded, initPc,
                   pendingLoad, toasts, seed, excursion, L, M, outage,
                   storageVars, ownerVars, clockVars, initVars, rateVars, utilVars>>
    /\ published' = <<getState'>>

Next ==
    \/ ElementAppears
    \/ Construct
    \/ InitRetry
    \/ LoadComplete
    \/ \E currentTime \in Times : TimeUpdate(currentTime)
    \/ \E currentTime \in Times : Seeked(currentTime)
    \/ \E rate \in Rates : RateChange(rate)
    \/ Pause
    \/ Ended
    \/ LoadedMetadata
    \/ SaveTimerFires
    \/ Destroy

Spec == Init /\ [][Next]_vars


\* ---- the merge functions on their own ---------------------------------------------

Intervals == {iv \in Times \X Times : iv[1] < iv[2]}
IntervalLists == UNION {[1 .. n -> Intervals] : n \in 0 .. MaxLen}

InitMerge ==
    /\ elementPresent = FALSE
    /\ playbackRate = MAX_PLAYBACK_RATE
    /\ held = FALSE
    /\ videoElement = FALSE
    /\ duration = 0
    /\ watchedSegments = <<>>
    /\ lastRecordedTime = -1
    /\ currentSegmentStart = -1
    /\ isTracking = FALSE
    /\ saveTimeout = FALSE
    /\ pendingTimers = 0
    /\ isComplete = FALSE
    /\ speedWarningShown = FALSE
    /\ isSpeedExceeded = FALSE
    /\ initPc = "none"
    /\ listening = FALSE
    /\ pendingLoad = NoRecord
    /\ store = NoRecord
    /\ event = <<>>
    /\ saves = <<>>
    /\ published = <<>>
    /\ toasts = 0
    /\ seed = "none"
    /\ run = Broken
    /\ excursion = <<>>
    /\ L \in IntervalLists
    /\ M = <<>>
    /\ outage = FALSE
    /\ twinStore = NoRecord
    /\ twinLoad = NoRecord
    /\ storageIdle
    /\ ownersIdle
    /\ clocksIdle
    /\ retries = 0
    /\ rateRun = FALSE
    /\ utilsIdle

mergeFrame ==
    UNCHANGED <<elementPresent, playbackRate, held, trackerVars, initPc,
                listening, pendingLoad, store, saves, published, toasts, seed,
                run,
                excursion, outage, twinVars, storageVars, ownerVars, clockVars, initVars, rateVars, utilVars>>

\* mergeSegments() run on the list
ApplyMergeSegments ==
    /\ M' = mergeSegments(L)
    /\ event' = <<"mergeSegments">>
    /\ UNCHANGED L
    /\ mergeFrame

\* mergeSegmentsArray() run on the list
ApplyMergeSegmentsArray ==
    /\ M' = mergeSegmentsArray(L)
    /\ event' = <<"mergeSegmentsArray">>
    /\ UNCHANGED L
    /\ mergeFrame

NextMerge == ApplyMergeSegments \/ ApplyMergeSegmentsArray

SpecMerge == InitMerge /\ [][NextMerge]_vars

\* ---- the tracker while store writes may fail ----------------------------------------

\* a record left by an earlier page load
EarlierRecord == VideoProgress(<< <<0, 1>> >>, FALSE, 1, MaxTime)

InitOutage ==
    /\ elementPresent \in BOOLEAN
    /\ playbackRate = MAX_PLAYBACK_RATE
    /\ held = FALSE
    /\ videoElement = FALSE
    /\ duration = 0
    /\ watchedSegments = <<>>
    /\ lastRecordedTime = -1
    /\ currentSegmentStart = -1
    /\ isTracking = FALSE
    /\ saveTimeout = FALSE
    /\ pendingTimers = 0
    /\ isComplete = FALSE
    /\ speedWarningShown = FALSE
    /\ isSpeedExceeded = FALSE
    /\ initPc = "none"
    /\ listening = FALSE
    /\ pendingLoad = NoRecord
    /\ store \in {NoRecord, EarlierRecord}
    /\ event = <<>>
    /\ saves = <<>>
    /\ published = <<>>
    /\ toasts = 0
    /\ seed = "none"
    /\ run = Broken
    /\ excursion = <<>>
    /\ L = <<>>
    /\ M = <<>>
    /\ outage = FALSE
    /\ twinStore = store
    /\ twinLoad = NoRecord
    /\ storageIdle
    /\ ownersIdle
    /\ clocksIdle
    /\ retries = 0
    /\ rateRun = FALSE
    /\ utilsIdle

\* the backends stop taking writes: the quota is exceeded and the extension
\* context is invalidated, which lasts for the life of the content script
OutageBegins ==
    /\ ~outage
    /\ outage' = TRUE
    /\ event' = <<>>
    /\ saves' = <<>>
    /\ published' = <<>>
    /\ UNCHANGED <<elementPresent, playbackRate, held, trackerVars, initPc,
                   listening, pendingLoad, store, toasts, seed, run, excursion,
                   L, M, twinVars, storageVars, ownerVars, clockVars, initVars, rateVars, utilVars>>

\* the steps that read the store or write to it, with the playback that
\* gives them something to write
NextOutage ==
    \/ ElementAppears
    \/ Construct
    \/ InitRetry
    \/ LoadComplete
    \/ \E currentTime \in Times : TimeUpdate(currentTime)
    \/ Pause
    \/ Ended
    \/ SaveTimerFires
    \/ Destroy
    \/ OutageBegins

SpecOutage == InitOutage /\ [][NextOutage]_vars

\* ---- the backends on their own -------------------------------------------------------

InitStore ==
    /\ elementPresent = FALSE
    /\ playbackRate = MAX_PLAYBACK_RATE
    /\ held = FALSE
    /\ videoElement = FALSE
    /\ duration = 0
    /\ watchedSegments = <<>>
    /\ lastRecordedTime = -1
    /\ currentSegmentStart = -1
    /\ isTracking = FALSE
    /\ saveTimeout = FALSE
    /\ pendingTimers = 0
    /\ isComplete = FALSE
    /\ speedWarningShown = FALSE
    /\ isSpeedExceeded = FALSE
    /\ initPc = "none"
    /\ listening = FALSE
    /\ pendingLoad = NoRecord
    /\ store = NoRecord
    /\ event = <<>>
    /\ saves = <<>>
    /\ published = <<>>
    /\ toasts = 0
    /\ seed = "none"
    /\ run = Broken
    /\ excursion = <<>>
    /\ L = <<>>
    /\ M = <<>>
    /\ outage = FALSE
    /\ twinStore = NoRecord
    /\ twinLoad = NoRecord
    /\ chromeApi \in BOOLEAN
    /\ chromeArea = [id \in VideoIds |-> NoRecord]
    /\ localArea = [id \in VideoIds |-> NoItem]
    /\ got = Unsettled
    /\ lastSaved = [id \in VideoIds |-> NoRecord]
    /\ cleared = {}
    /\ ownersIdle
    /\ clocksIdle
    /\ retries = 0
    /\ rateRun = FALSE
    /\ utilsIdle

storeFrame ==
    UNCHANGED <<elementPresent, playbackRate, held, trackerVars, initPc,
                listening, pendingLoad, store, saves, published, toasts, seed,
                run,
                excursion, L, M, outage, twinVars, chromeApi, ownerVars, clockVars, initVars, rateVars, utilVars>>

\* isExtensionContextValid() can only hold where the chrome API exists, and
\* chrome.runtime.lastError is only set by a call that was made
callInputs(contextValid, lastError) ==
    /\ contextValid => chromeApi
    /\ lastError => contextValid

\* saveProgress(videoId, ...) with the record data
SaveProgress(videoId, data, setItemThrows, contextValid, lastError) ==
    /\ callInputs(contextValid, lastError)
    /\ localArea' = IF setItemThrows THEN localArea
                    ELSE [localArea EXCEPT ![videoId] = stringify(data)]
    /\ chromeArea' = IF contextValid /\ ~lastError
                     THEN chromeSet(chromeArea, videoId, data)
                     ELSE chromeArea
    /\ lastSaved' = [lastSaved EXCEPT ![videoId] =
                         IF setItemThrows THEN NoRecord ELSE data]
    /\ cleared' = cleared \ {videoId}
    /\ got' = Unsettled
    /\ event' = <<"saveProgress", videoId>>
    /\ storeFrame

\* getProgress(videoId)
GetProgress(videoId, contextValid, lastError) ==
    /\ callInputs(contextValid, lastError)
    /\ got' = getProgressResult(videoId, contextValid, lastError)
    /\ event' = <<"getProgress", videoId,
                  IF ~contextValid THEN "localStorage"
                  ELSE IF lastError THEN "lastError" ELSE "chrome">>
    /\ UNCHANGED <<chromeArea, localArea, lastSaved, cleared>>
    /\ storeFrame

\* clearProgress(videoId)
ClearProgress(videoId, contextValid, lastError) ==
    /\ callInputs(contextValid, lastError)
    /\ got' = Unsettled
    /\ IF chromeApi
       THEN IF contextValid /\ ~lastError
            THEN /\ chromeArea' = [chromeArea EXCEPT ![videoId] = NoRecord]
                 /\ event' = <<"clearProgress", videoId, "resolved">>
                 /\ lastSaved' = [lastSaved EXCEPT ![videoId] = NoRecord]
                 /\ cleared' = cleared \cup {videoId}
                 /\ UNCHANGED localArea
            ELSE \* remove() throws in the invalidated context, or reports
                 \* lastError: the promise is rejected
                 /\ event' = <<"clearProgress", videoId, "rejected">>
                 /\ UNCHANGED <<chromeArea, localArea, lastSaved, cleared>>
       ELSE /\ localArea' = [localArea EXCEPT ![videoId] = NoItem]
            /\ event' = <<"clearProgress", videoId, "resolved">>
            /\ lastSaved' = [lastSaved EXCEPT ![videoId] = NoRecord]
            /\ cleared' = cleared \cup {videoId}
            /\ UNCHANGED chromeArea
    /\ storeFrame

\* the cached entry of the video is overwritten with a text that is not JSON
CacheCorrupted(videoId) ==
    /\ localArea[videoId] # Corrupt
    /\ localArea' = [localArea EXCEPT ![videoId] = Corrupt]
    /\ lastSaved' = [lastSaved EXCEPT ![videoId] = NoRecord]
    /\ cleared' = cleared \ {videoId}
    /\ got' = Unsettled
    /\ event' = <<"corrupted", videoId>>
    /\ UNCHANGED chromeArea
    /\ storeFrame

NextStore ==
    \/ \E videoId \in VideoIds, data \in Records,
          setItemThrows, contextValid, lastError \in BOOLEAN :
            SaveProgress(videoId, data, setItemThrows, contextValid, lastError)
    \/ \E videoId \in VideoIds, contextValid, lastError \in BOOLEAN :
            GetProgress(videoId, contextValid, lastError)
    \/ \E videoId \in VideoIds, contextValid, lastError \in BOOLEAN :
            ClearProgress(videoId, contextValid, lastError)
    \/ \E videoId \in VideoIds : CacheCorrupted(videoId)

SpecStore == InitStore /\ [][NextStore]_vars

\* ---- the owners on their own ----------------------------------------------------------

InitOwners ==
    /\ elementPresent = FALSE
    /\ playbackRate = MAX_PLAYBACK_RATE
    /\ held = FALSE
    /\ videoElement = FALSE
    /\ duration = 0
    /\ watchedSegments = <<>>
    /\ lastRecordedTime = -1
    /\ currentSegmentStart = -1
    /\ isTracking = FALSE
    /\ saveTimeout = FALSE
    /\ pendingTimers = 0
    /\ isComplete = FALSE
    /\ speedWarningShown = FALSE
    /\ isSpeedExceeded = FALSE
    /\ initPc = "none"
    /\ listening = FALSE
    /\ pendingLoad = NoRecord
    /\ store = NoRecord
    /\ event = <<>>
    /\ saves = <<>>
    /\ published = <<>>
    /\ toasts = 0
    /\ seed = "none"
    /\ run = Broken
    /\ excursion = <<>>
    /\ L = <<>>
    /\ M = <<>>
    /\ outage = FALSE
    /\ twinStore = NoRecord
    /\ twinLoad = NoRecord
    /\ storageIdle
    \* the page the scripts are injected into: StudyModeManager.init is about
    \* to call handleNavigation(), and index.tsx init() has started the timer
    \* of its initial check (where study mode is off the check does nothing)
    /\ location \in Locations
    /\ studyModeActive \in BOOLEAN
    /\ managerVideoTracker = NoTracker
    /\ managerCurrentVideoId = NoVideo
    /\ scriptVideoTracker = NoTracker
    /\ scriptCurrentVideoId = NoVideo
    /\ pendingHandlers = <<"manager.handleNavigation", "script.toggled">>
    /\ clocksIdle
    /\ retries = 0
    /\ rateRun = FALSE
    /\ utilsIdle

ownersFrame ==
    UNCHANGED <<elementPresent, playbackRate, held, trackerVars, initPc,
                listening, pendingLoad, store, event, saves, published, toasts,
                seed, run,
                excursion, L, M, outage, twinVars, storageVars, clockVars, initVars, rateVars, utilVars>>

scheduled(handler) == \E i \in DOMAIN pendingHandlers : pendingHandlers[i] = handler
unscheduled(handler) == SelectSeq(pendingHandlers, LAMBDA h : h # handler)

\* a navigation to the page of videoId (or to a page without one):
\* NavigationService.notify and the onNavigate of index.tsx each start a
\* 100 ms timer.  The next navigation waits for both to have run.
Navigate(videoId) ==
    /\ ~scheduled("manager.handleNavigation")
    /\ ~scheduled("script.onNavigate")
    /\ location' = videoId
    /\ pendingHandlers' =
           pendingHandlers \o <<"manager.handleNavigation", "script.onNavigate">>
    /\ UNCHANGED <<studyModeActive, managerVideoTracker, managerCurrentVideoId,
                   scriptVideoTracker, scriptCurrentVideoId>>
    /\ ownersFrame

\* StudyModeManager.handleNavigation(), run by the timer of notify()
ManagerHandleNavigation ==
    /\ scheduled("manager.handleNavigation")
    /\ pendingHandlers' = unscheduled("manager.handleNavigation")
    /\ LET m == IF studyModeActive
                THEN managerInitializeTracker(managerVideoTracker,
                         managerCurrentVideoId, location, studyModeActive)
                ELSE destroyTracker(managerVideoTracker, managerCurrentVideoId)
       IN  /\ managerVideoTracker' = m[1]
           /\ managerCurrentVideoId' = m[2]
    /\ UNCHANGED <<location, studyModeActive, scriptVideoTracker,
                   scriptCurrentVideoId>>
    /\ ownersFrame

\* index.tsx: the timer callback of onNavigate
ScriptOnNavigate ==
    /\ scheduled("script.onNavigate")
    /\ pendingHandlers' = unscheduled("script.onNavigate")
    /\ LET s == scriptInitializeTracker(scriptVideoTracker,
                    scriptCurrentVideoId, location, studyModeActive)
       IN  /\ scriptVideoTracker' = s[1]
           /\ scriptCurrentVideoId' = s[2]
    /\ UNCHANGED <<location, studyModeActive, managerVideoTracker,
                   managerCurrentVideoId>>
    /\ ownersFrame

\* the study-mode switch is turned on: the body class is set and
\* 'study-mode-toggled' is dispatched; handleToggle awaits applyFocusMode()
\* and index.tsx starts a 500 ms timer before either initializes a tracker.
\* The switch is not turned on again while one of the two is outstanding.
ToggleOn ==
    /\ ~studyModeActive
    /\ ~scheduled("manager.handleToggle")
    /\ ~scheduled("script.toggled")
    /\ studyModeActive' = TRUE
    /\ pendingHandlers' =
           pendingHandlers \o <<"manager.handleToggle", "script.toggled">>
    /\ UNCHANGED <<location, managerVideoTracker, managerCurrentVideoId,
                   scriptVideoTracker, scriptCurrentVideoId>>
    /\ ownersFrame

\* StudyModeManager.handleToggle(true) after its await
ManagerHandleToggle ==
    /\ scheduled("manager.handleToggle")
    /\ pendingHandlers' = unscheduled("manager.handleToggle")
    /\ LET m == managerInitializeTracker(managerVideoTracker,
                    managerCurrentVideoId, location, studyModeActive)
       IN  /\ managerVideoTracker' = m[1]
           /\ managerCurrentVideoId' = m[2]
    /\ UNCHANGED <<location, studyModeActive, scriptVideoTracker,
                   scriptCurrentVideoId>>
    /\ ownersFrame

\* index.tsx: the 500 ms timer callback of the 'study-mode-toggled' listener;
\* a 100 ms navigation timer that was started before it has run by then
ScriptToggled ==
    /\ \E i \in DOMAIN pendingHandlers :
           /\ pendingHandlers[i] = "script.toggled"
           /\ \A j \in 1 .. i - 1 : pendingHandlers[j] # "script.onNavigate"
    /\ pendingHandlers' = unscheduled("script.toggled")
    /\ LET s == scriptInitializeTracker(scriptVideoTracker,
                    scriptCurrentVideoId, location, studyModeActive)
       IN  /\ scriptVideoTracker' = s[1]
           /\ scriptCurrentVideoId' = s[2]
    /\ UNCHANGED <<location, studyModeActive, managerVideoTracker,
                   managerCurrentVideoId>>
    /\ ownersFrame

\* the study-mode switch is turned off: the body class is removed and both
\* listeners call destroyTracker() at once
ToggleOff ==
    /\ studyModeActive
    /\ studyModeActive' = FALSE
    /\ LET m == destroyTracker(managerVideoTracker, managerCurrentVideoId)
           s == destroyTracker(scriptVideoTracker, scriptCurrentVideoId)
       IN  /\ managerVideoTracker' = m[1]
           /\ managerCurrentVideoId' = m[2]
           /\ scriptVideoTracker' = s[1]
           /\ scriptCurrentVideoId' = s[2]
    /\ UNCHANGED <<location, pendingHandlers>>
    /\ ownersFrame

NextOwners ==
    \/ \E videoId \in Locations : Navigate(videoId)
    \/ ManagerHandleNavigation
    \/ ScriptOnNavigate
    \/ ToggleOn
    \/ ManagerHandleToggle
    \/ ScriptToggled
    \/ ToggleOff

SpecOwners == InitOwners /\ [][NextOwners]_vars

\* ---- the debounced save on its own, with its clock ----------------------------------------

InitDebounce ==
    /\ elementPresent = TRUE
    /\ playbackRate = MAX_PLAYBACK_RATE
    /\ held = TRUE
    /\ videoElement = TRUE
    /\ duration \in {0, MaxTime}
    /\ watchedSegments = <<>>
    /\ lastRecordedTime = -1
    /\ currentSegmentStart = -1
    /\ isTracking = TRUE
    /\ saveTimeout = FALSE
    /\ pendingTimers = 0
    /\ isComplete = FALSE
    /\ speedWarningShown = FALSE
    /\ isSpeedExceeded = FALSE
    /\ initPc = "ready"
    /\ listening = TRUE
    /\ pendingLoad = NoRecord
    /\ store = NoRecord
    /\ event = <<>>
    /\ saves = <<>>
    /\ published = <<>>
    /\ toasts = 0
    /\ seed = "empty"
    /\ run = Broken
    /\ excursion = <<>>
    /\ L = <<>>
    /\ M = <<>>
    /\ outage = FALSE
    /\ twinStore = NoRecord
    /\ twinLoad = NoRecord
    /\ storageIdle
    /\ ownersIdle
    /\ clocksIdle
    /\ retries = 0
    /\ rateRun = FALSE
    /\ utilsIdle

debounceFrame ==
    UNCHANGED <<elementPresent, playbackRate, held, videoElement, duration,
                watchedSegments, lastRecordedTime, currentSegmentStart,
                isTracking, isComplete, speedWarningShown, isSpeedExceeded,
                initPc, listening, pendingLoad, toasts, seed, run, excursion,
                L, M, outage, twinLoad, storageVars, ownerVars, initVars, rateVars, utilVars>>

\* scheduleSave(), as handleTimeUpdate calls it
ScheduleSave ==
    /\ saveTimeout' = TRUE
    /\ pendingTimers' = timersAfterScheduleSave(saveTimeout, pendingTimers)
    /\ timerAge' = timerAgeAfterScheduleSave(saveTimeout, timerAge)
    /\ quiet' = 0
    /\ event' = <<>>
    /\ saves' = <<>>
    /\ published' = <<>>
    /\ UNCHANGED <<store, twinStore>>
    /\ debounceFrame

\* half a second passes; a timer that is due fires before more time passes
TimePasses ==
    /\ pendingTimers > 0 => timerAge < SAVE_DEBOUNCE_MS
    /\ pendingTimers > 0 \/ quiet < SAVE_DEBOUNCE_MS
    /\ timerAge' = IF pendingTimers > 0 THEN timerAge + 1 ELSE timerAge
    /\ quiet' = IF quiet < SAVE_DEBOUNCE_MS THEN quiet + 1 ELSE quiet
    /\ event' = <<>>
    /\ saves' = <<>>
    /\ published' = <<>>
    /\ UNCHANGED <<saveTimeout, pendingTimers, store, twinStore>>
    /\ debounceFrame

\* the callback of the timer of scheduleSave(), SAVE_DEBOUNCE_MS after the
\* timer was started
SaveTimerDue ==
    /\ pendingTimers > 0
    /\ timerAge = SAVE_DEBOUNCE_MS
    /\ LET e == saveEntry("timer", <<currentSegmentStart, lastRecordedTime>>,
                          watchedSegments, currentSegmentStart, lastRecordedTime,
                          isComplete, duration)
       IN  /\ store' = written(e.rec)
           /\ twinStore' = e.rec
           /\ saves' = <<e>>
    /\ saveTimeout' = FALSE
    /\ pendingTimers' = pendingTimers - 1
    /\ timerAge' = 0
    /\ event' = <<>>
    /\ UNCHANGED quiet
    /\ debounceFrame
    /\ published' = <<getState'>>

\* saveProgressNow() called for an immediate save, as handlePause calls it
SaveProgressNow ==
    /\ LET e == saveEntry("pause", <<currentSegmentStart, lastRecordedTime>>,
                          watchedSegments, currentSegmentStart, lastRecordedTime,
                          isComplete, duration)
       IN  /\ store' = written(e.rec)
           /\ twinStore' = e.rec
           /\ saves' = <<e>>
    /\ saveTimeout' = FALSE
    /\ pendingTimers' = timersAfterClearTimeout(saveTimeout, pendingTimers)
    /\ timerAge' = 0
    /\ event' = <<>>
    /\ UNCHANGED quiet
    /\ debounceFrame
    /\ published' = <<getState'>>

NextDebounce ==
    \/ ScheduleSave
    \/ TimePasses
    \/ SaveTimerDue
    \/ SaveProgressNow

SpecDebounce == InitDebounce /\ [][NextDebounce]_vars

\* ---- an attached tracker during playback, whose due timers are run ----

NextPlayback ==
    \/ \E currentTime \in Times : TimeUpdate(currentTime)
    \/ \E currentTime \in Times : Seeked(currentTime)
    \/ \E rate \in Rates : RateChange(rate)
    \/ Pause
    \/ Ended
    \/ SaveTimerFires
    \/ Destroy

\* a pending timer of scheduleSave() goes away: its callback runs
\* (SaveTimerFires) or saveProgressNow() clears it
timerSettles == pendingTimers > 0 /\ pendingTimers' = pendingTimers - 1

\* the event loop runs a setTimeout callback that stays due
SpecPlayback == InitDebounce /\ [][NextPlayback]_vars /\ WF_pendingTimers(timerSettles)

\* ---- init() and its retry for a missing media element -------------------------

\* the retries of init() that are followed
MaxRetries == 3

\* the 500 ms retry of init() finds no element and schedules the next retry
InitRetryMisses ==
    /\ initPc = "retry"
    /\ ~elementPresent
    /\ retries < MaxRetries
    /\ retries' = retries + 1
    /\ event' = <<>>
    /\ saves' = <<>>
    /\ published' = <<>>
    /\ UNCHANGED twinVars
    /\ UNCHANGED <<elementPresent, playbackRate, held, trackerVars, initPc,
                   listening, pendingLoad, store, toasts, seed, run, excursion,
                   L, M, outage, storageVars, ownerVars, clockVars, rateVars, utilVars>>

NextInit ==
    \/ ElementAppears
    \/ Construct
    \/ InitRetryMisses
    \/ InitRetry
    \/ LoadComplete
    \/ \E currentTime \in Times : TimeUpdate(currentTime)
    \/ Pause
    \/ Destroy

\* a step of init(): the retry timer fires, with the element there or not, or
\* the pending getProgress() resolves
initAdvances ==
    \/ initPc = "retry" /\ elementPresent
          /\ initPc' = "loading" /\ retries' = retries
    \/ initPc = "retry" /\ ~elementPresent /\ retries < MaxRetries
          /\ initPc' = initPc /\ retries' = retries + 1
    \/ initPc = "loading"
          /\ initPc' \in {"ready", "failed"} /\ retries' = retries

\* the event loop runs the retry timer and the storage callback
SpecInit == Init /\ [][NextInit]_vars /\ WF_<<initPc, retries>>(initAdvances)

\* ---- what the claims speak of -------------------------------------------------------

\* sorted by start, non-overlapping, consecutive intervals more than TAU apart
Canonical(ws) ==
    /\ \A i \in DOMAIN ws : ws[i][1] < ws[i][2]
    /\ \A i \in 1 .. Len(ws) - 1 : ws[i + 1][1] > ws[i][2] + TAU

\* cells covered by the intervals once each is widened by TAU at its end:
\* two intervals belong together exactly when their widened cells touch
WideCells(list) ==
    {c \in 0 .. MaxTime + TAU - 1 :
        \E i \in DOMAIN list : list[i][1] <= c /\ c < list[i][2] + TAU}

\* R is the canonical merge of list
IsCanonicalMergeOf(R, list) == Canonical(R) /\ WideCells(R) = WideCells(list)

\* some interval of ws contains [s, l]
Covers(ws, s, l) == \E i \in DOMAIN ws : ws[i][1] <= s /\ l <= ws[i][2]

\* the same tracker object before and after the step
sameTracker == ~(held' /\ ~held)

\* the orders in which n indices can be taken
IndexOrders ==
    [n \in 0 .. MaxLen |->
        {q \in [1 .. n -> 1 .. n] : \A i, j \in 1 .. n : q[i] = q[j] => i = j}]

\* the lists that hold the elements of list in some order
Reorderings(list) ==
    {[i \in DOMAIN list |-> list[p[i]]] : p \in IndexOrders[Len(list)]}

\* the latest step was getProgress(videoId)
gotFor(videoId) == Len(event) = 3 /\ event[1] = "getProgress" /\ event[2] = videoId

\* what loadProgress() makes of the record it is handed: the tracker's
\* segment set and completion flag after the load
seededFrom(rec) ==
    IF rec.present THEN <<rec.watchedSegments, rec.isComplete>>
    ELSE <<watchedSegments, isComplete>>

\* the merge function that produced M
mergeApplied(list) ==
    IF event = <<"mergeSegments">> THEN mergeSegments(list)
    ELSE mergeSegmentsArray(list)


\* ---- claims --------------------------------------------------------------------------

\* C1: in every reachable state the tracker's watchedSegments is sorted by
\* start, pairwise non-overlapping, and consecutive intervals are more than
\* 0.5 s apart.
C1_SegmentSetCanonical == Canonical(watchedSegments)

\* C2: every save leaves the tracker's watchedSegments (and the open interval)
\* as they were before the call.
C2_SaveIsPurePeek ==
    \A i \in DOMAIN saves : saves[i].after = saves[i].closed

\* C3: every record handed to the store holds the canonical merge of the
\* closed segments together with the non-empty open interval, and a
\* totalWatched that is the total length of exactly those merged intervals.
C3_SavedRecordIsMerge ==
    \A i \in DOMAIN saves :
        LET e == saves[i]
            input == IF e.start >= 0 /\ e.last > e.start
                     THEN Append(e.closed, <<e.start, e.last>>) ELSE e.closed
        IN  /\ e.rec.present
            /\ IsCanonicalMergeOf(e.rec.watchedSegments, input)
            /\ e.rec.totalWatched = Cardinality(Cells(e.rec.watchedSegments))
            /\ store = saves[Len(saves)].rec

\* C3 witness: a timer save has merged a non-empty open interval into closed
\* segments it touches.
C3_Witness ==
    \E i \in DOMAIN saves :
        /\ saves[i].start >= 0 /\ saves[i].last > saves[i].start
        /\ Len(saves[i].closed) >= 2
        /\ Len(saves[i].rec.watchedSegments) < Len(saves[i].closed)


\* C4: destroying a tracker whose open interval [s, l] is non-empty issues a
\* write whose watchedSegments cover [s, l], and that write is the stored
\* record when destroy() returns.
C4_DestroyFlushesOpenInterval ==
    [][ (held /\ ~held') =>
          /\ Len(saves') = 1
          /\ saves'[1].by = "destroy"
          /\ (currentSegmentStart >= 0 /\ lastRecordedTime > currentSegmentStart) =>
                /\ saves'[1].rec.present
                /\ Covers(saves'[1].rec.watchedSegments,
                          currentSegmentStart, lastRecordedTime)
                /\ store' = saves'[1].rec
      ]_vars

\* C4 witness: a tracker was destroyed in the middle of an interval.
C4_Witness ==
    /\ saves # <<>>
    /\ saves[1].by = "destroy"
    /\ saves[1].open[1] >= 0
    /\ saves[1].open[2] > saves[1].open[1]
    /\ store.watchedSegments # <<>>

\* C5: within one tracker the completion notification is shown only when an
\* ended event turns isComplete from false to true at 98% of a positive
\* duration, that happens at most once, later events show nothing more, and
\* a tracker seeded with isComplete = true never shows it.
C5_CompletionOnce ==
    [][ /\ (toasts' > toasts =>
               /\ sameTracker
               /\ Len(saves') = 2
               /\ saves'[1].by = "ended" /\ saves'[2].by = "completion"
               /\ ~isComplete /\ isComplete'
               /\ toasts' = 1
               /\ duration > 0
               /\ Cardinality(Cells(watchedSegments')) * 100
                      >= COMPLETION_THRESHOLD * duration)
        /\ ((sameTracker /\ initPc = "ready" /\ ~isComplete /\ isComplete') =>
               toasts' = toasts + 1)
        /\ ((sameTracker /\ isComplete) => (isComplete' /\ toasts' = toasts))
        /\ (seed' = "complete" => toasts' = 0)
      ]_vars

\* C5 witness: a tracker that has shown the notification handles a later
\* pause or ended event.
C5_Witness ==
    /\ toasts = 1
    /\ isComplete
    /\ Len(saves) = 1
    /\ saves[1].by \in {"pause", "ended"}

\* C6: once the stored record has isComplete = true, no later write stores
\* isComplete = false.
C6_CompletionDurable ==
    [][ (store.present /\ store.isComplete) => store'.isComplete ]_vars


\* in SpeedExceeded a time-update changes nothing and schedules nothing
speedFrame ==
    (isSpeedExceeded /\ \E currentTime \in Times : TimeUpdate(currentTime)) =>
        UNCHANGED <<watchedSegments, currentSegmentStart, lastRecordedTime,
                    saveTimeout, pendingTimers, store, isSpeedExceeded>>

\* SpeedExceeded is entered by a rate-change above the limit and left by a
\* rate-change to the limit or below, which restarts the open interval
speedResume ==
    /\ (sameTracker /\ ~isSpeedExceeded /\ isSpeedExceeded') =>
           playbackRate' > MAX_PLAYBACK_RATE
    /\ (sameTracker /\ isSpeedExceeded /\ ~isSpeedExceeded') =>
           /\ playbackRate' <= MAX_PLAYBACK_RATE
           /\ currentSegmentStart' = lastRecordedTime'
           /\ currentSegmentStart' >= 0
           /\ watchedSegments' = watchedSegments
    /\ isSpeedExceeded' => ~openNonEmpty(currentSegmentStart', lastRecordedTime')

\* the range passed above the limit, if longer than k ticks, is not covered
excursionNotCredited(k) ==
    (Len(excursion) = 2 /\ excursion[2] - excursion[1] > k) =>
        (excursion[1] .. excursion[2] - 1) \cap Cells(watchedSegments) = {}

\* C7 as stated: while the speed is exceeded time-updates change nothing,
\* tracking resumes from the playhead afterwards, and the range between the
\* last position tracked before the rate-change above the limit and the
\* playhead at the rate-change back is never covered by the segment set.
C7_SpeedSpanNeverCredited ==
    [][ speedFrame /\ speedResume /\ excursionNotCredited(0)' ]_vars

\* C7 amended: the same, where the range passed above the limit is one of
\* more than 0.5 s; a shorter one is bridged by the merge tolerance.
C7_SpeedSpanNotCreditedBeyondTolerance ==
    [][ speedFrame /\ speedResume /\ excursionNotCredited(TAU)' ]_vars

\* C7 witness: segments recorded on both sides of a range of more than 0.5 s
\* that was passed above the limit.
C7_Witness ==
    /\ Len(excursion) = 2
    /\ excursion[2] - excursion[1] > TAU
    /\ \E i \in DOMAIN watchedSegments : watchedSegments[i][2] <= excursion[1]
    /\ \E i \in DOMAIN watchedSegments : watchedSegments[i][1] >= excursion[2]

\* a time-update whose gap to lastRecordedTime is >= 1.0 s or negative
skipDelivered ==
    /\ ~timeUpdateIgnored
    /\ lastRecordedTime >= 0
    /\ \/ lastRecordedTime' - lastRecordedTime >= GAP_THRESHOLD
       \/ lastRecordedTime' - lastRecordedTime < 0
    /\ lastRecordedTime' \in Times
    /\ TimeUpdate(lastRecordedTime')

\* the step closes the non-empty open interval into the set and opens a fresh one
skipCloses ==
    /\ IF currentSegmentStart >= 0 /\ lastRecordedTime > currentSegmentStart
       THEN IsCanonicalMergeOf(watchedSegments',
                Append(watchedSegments, <<currentSegmentStart, lastRecordedTime>>))
       ELSE watchedSegments' = watchedSegments
    /\ currentSegmentStart' = lastRecordedTime'
    /\ saveTimeout'

\* cells of the jumped-over range that the step adds to the segment set
jumpedAdded ==
    (Cells(watchedSegments') \ Cells(watchedSegments))
        \cap (lastRecordedTime .. lastRecordedTime' - 1)

\* C8 as stated: a time-update with a gap >= 1.0 s or < 0 closes the open
\* interval into the set, opens a fresh one at currentTime, and adds nothing
\* of the jumped-over range to the set.
C8_SkipAddsNothingOfJump ==
    [][ skipDelivered => (skipCloses /\ jumpedAdded = {}) ]_vars

\* C8 amended: as stated, except that the step may add the first 0.5 s of
\* the jumped-over range, and only when a segment recorded before begins
\* within 0.5 s after lastRecordedTime (the merge tolerance joins the two).
C8_SkipAddsAtMostTolerance ==
    [][ skipDelivered =>
          /\ skipCloses
          /\ jumpedAdded \subseteq (lastRecordedTime .. lastRecordedTime + TAU - 1)
          /\ jumpedAdded # {} =>
                /\ currentSegmentStart >= 0 /\ lastRecordedTime > currentSegmentStart
                /\ \E i \in DOMAIN watchedSegments :
                       /\ watchedSegments[i][1] > lastRecordedTime
                       /\ watchedSegments[i][1] <= lastRecordedTime + TAU
      ]_vars

\* C8 witness: a forward jump has left a closed interval behind and a fresh
\* open interval ahead of it, with the jumped-over range uncovered.
C8_Witness ==
    /\ event = <<"skip">>
    /\ Len(watchedSegments) = 1
    /\ currentSegmentStart = lastRecordedTime
    /\ currentSegmentStart >= watchedSegments[1][2] + GAP_THRESHOLD

\* C9: on a fresh tracker at normal speed a run of time-updates with every
\* gap inside (0, 1.0 s) closes no interval, and finalizing it leaves exactly
\* the one interval [t0, tn].
C9_UnbrokenRunIsOneInterval ==
    /\ runActive =>
          /\ watchedSegments = <<>>
          /\ currentSegmentStart = run[1]
          /\ lastRecordedTime = run[Len(run)]
          /\ \A i \in 1 .. Len(run) - 1 :
                 run[i + 1] - run[i] > 0 /\ run[i + 1] - run[i] < GAP_THRESHOLD
    /\ (Len(run) >= 3 /\ run[1] = -2) =>
          watchedSegments = << <<run[2], run[Len(run)]>> >>

\* C9 witness: a run of three samples starting at 0 has been finalized.
C9_Witness ==
    /\ Len(run) >= 4
    /\ run[1] = -2
    /\ run[2] = 0

\* C10: merging a merged list again changes nothing, for the in-place merge
\* and for the merge used when saving.
C10_MergeIdempotent ==
    /\ event = <<"mergeSegments">> => mergeSegments(M) = M
    /\ event = <<"mergeSegmentsArray">> => mergeSegmentsArray(M) = M

\* C10 witness: a merge has joined some of three intervals and kept two.
C10_Witness ==
    /\ event # <<>>
    /\ Len(L) = 3
    /\ Len(M) = 2

\* C11: for two intervals A, B with A.start <= B.start the merge yields the
\* single interval [A.start, max(A.end, B.end)] when B.start - A.end <= 0.5 s,
\* and the two intervals unchanged when B.start - A.end > 0.5 s.
C11_PairMergedWithinTolerance ==
    (event # <<>> /\ Len(L) = 2 /\ L[1][1] <= L[2][1]) =>
        M = IF L[2][1] - L[1][2] <= TAU
            THEN << <<L[1][1], Max(L[1][2], L[2][2])>> >>
            ELSE L

\* C11 witness: two intervals exactly 0.5 s apart have been merged into one.
C11_Witness ==
    /\ event # <<>>
    /\ Len(L) = 2
    /\ L[2][1] - L[1][2] = TAU
    /\ M = << <<L[1][1], L[2][2]>> >>

\* C12: the merged set and its total length do not depend on the order of
\* the input: every reordering of the list merges to the same list, with the
\* same sum of interval lengths.
C12_MergeOrderIndependent ==
    event # <<>> =>
        \A P \in Reorderings(L) :
            LET R == mergeApplied(P)
            IN  R = M /\ calculateTotalWatched(R) = calculateTotalWatched(M)

\* C12 witness: a list of three intervals that is not sorted by start has
\* been merged into fewer.
C12_Witness ==
    /\ event # <<>>
    /\ Len(L) = 3
    /\ L[1][1] > L[2][1]
    /\ Len(M) = 2

\* C13: in every snapshot (getState() or 'progress-updated') totalWatched is
\* the measure of the union of the snapshot's intervals: no stretch of the
\* video is counted twice.
C13_NoDoubleCount ==
    getState.totalWatched = Cardinality(Cells(getState.watchedSegments))

\* C14: whatever backend failures the individual calls meet, getProgress
\* returns the record of the most recent saveProgress for the video: never
\* an older record, never null.
C14_ReadsLatestSave ==
    \A videoId \in VideoIds :
        (gotFor(videoId) /\ lastSaved[videoId].present) =>
            got = resolved(lastSaved[videoId])

\* C15: when the cached entry of the video is not valid JSON, getProgress
\* yields null on the context-invalid fallback and on the lastError fallback
\* alike (so that init goes on with an empty segment set).
C15_MalformedReadsAsAbsent ==
    \A videoId \in VideoIds :
        (/\ gotFor(videoId)
         /\ event[3] \in {"localStorage", "lastError"}
         /\ localArea[videoId] = Corrupt) =>
            got = resolved(NoRecord)

\* C16: whether or not its store writes land, a tracker is in the same
\* in-memory state after the same events: the handlers never read the
\* outcome of a write, and what init loads is what it would load had every
\* write landed.
C16_OutageLeavesTrackingAlone ==
    [][ LoadComplete => seededFrom(pendingLoad) = seededFrom(twinLoad) ]_vars

\* C17: once destroy() has been called, the tracker never attaches
\* listeners, never becomes tracking, and issues no store write.
C17_DestroyedTrackerInert ==
    [][ (~held /\ ~held') =>
            (~listening' /\ ~isTracking' /\ saves' = <<>> /\ store' = store)
      ]_vars

\* C18: when an immediate save (pause, ended, completion, destroy) returns,
\* no debounced-save timer is pending, and after destroy() no timer-triggered
\* write lands.
C18_ImmediateSaveCancelsTimer ==
    [][ /\ (saves' # <<>> /\ saves'[Len(saves')].by # "timer") => ~saveTimeout'
        /\ (~held /\ ~held') => ~(saves' # <<>> /\ saves'[1].by = "timer")
      ]_vars

\* C19: after clearProgress(videoId) has resolved, getProgress(videoId)
\* returns null until the next saveProgress for the video, whichever backend
\* the read uses; and a record disappears from a backend only in a
\* clearProgress of its video.
C19_ClearedReadsAsAbsent ==
    [][ \A videoId \in VideoIds :
          /\ (gotFor(videoId) /\ videoId \in cleared)' => got' = resolved(NoRecord)
          /\ (\/ chromeArea[videoId].present /\ ~chromeArea'[videoId].present
              \/ localArea[videoId] # NoItem /\ localArea'[videoId] = NoItem) =>
                 event' = <<"clearProgress", videoId, "resolved">>
      ]_vars

\* C20: saveProgress(v, ...) puts exactly the record passed in under v's key
\* in each backend that takes the write (a backend that fails keeps what it
\* had), with nothing of the previous record surviving, and leaves every
\* other video's record as it was in both backends.
C20_SaveOverwritesWholeRecord ==
    [][ \A videoId \in VideoIds, data \in Records,
           setItemThrows, contextValid, lastError \in BOOLEAN :
          SaveProgress(videoId, data, setItemThrows, contextValid, lastError) =>
              /\ chromeArea'[videoId] =
                     IF contextValid /\ ~lastError THEN data ELSE chromeArea[videoId]
              /\ localArea'[videoId] =
                     IF setItemThrows THEN localArea[videoId] ELSE <<"json", data>>
              /\ \A other \in VideoIds \ {videoId} :
                     /\ chromeArea'[other] = chromeArea[other]
                     /\ localArea'[other] = localArea[other]
      ]_vars

\* C20 witness: a save has replaced the complete record of one video by an
\* incomplete one in both backends while the other video keeps its record.
C20_Witness ==
    /\ event = <<"saveProgress", "v">>
    /\ ~lastSaved["v"].isComplete
    /\ chromeArea["v"] = lastSaved["v"]
    /\ localArea["v"] = <<"json", lastSaved["v"]>>
    /\ chromeArea["w"].present /\ chromeArea["w"].isComplete
    /\ localArea["w"] = <<"json", chromeArea["w"]>>

\* C21: every snapshot (getState() or 'progress-updated') has
\* 0 <= percentComplete <= 100, whatever the segment set and the duration
\* are; with a duration <= 0 it is 0.
C21_PercentWithinBounds ==
    LET pc == getState.percentComplete
    IN  /\ pc[2] > 0
        /\ 0 <= pc[1]
        /\ pc[1] <= 100 * pc[2]
        /\ duration <= 0 => pc[1] = 0

\* C21 witness: a snapshot whose totalWatched exceeds a known duration.
C21_Witness ==
    /\ duration > 0
    /\ getState.totalWatched > duration
    /\ getState.percentComplete = <<100, 1>>

\* C22: playback that goes on after a pause or ended event is credited:
\* when time-updates at an allowed rate have advanced from a to b with every
\* gap inside (0, 1.0 s) and a pause, ended or destroy follows, the segment
\* set and the stored record cover [a, b].
C22_ResumedPlaybackCredited ==
    (Len(run) = 3 /\ run[1] = -4 /\ run[3] > run[2]) =>
        /\ Covers(watchedSegments, run[2], run[3])
        /\ Covers(store.watchedSegments, run[2], run[3])

\* C23: across constructions, media events and destructions the stored
\* record's coverage never shrinks: every stretch covered by the stored
\* watchedSegments is still covered after every later write.
C23_StoredCoverageNeverShrinks ==
    [][ Cells(store.watchedSegments) \subseteq Cells(store'.watchedSegments) ]_vars

\* an owner holds a live tracker for the video of the page whenever study
\* mode is active on a watch page, and never a tracker for another video
ownerKeepsTracker(tracker) ==
    /\ (studyModeActive /\ location # NoVideo) =>
           tracker = newVideoTracker(location)
    /\ tracker # NoTracker => tracker.videoId = location

\* C24: after every navigation or toggle has been handled with study mode
\* active on the watch page of video v, the manager holds a tracker for v
\* that has not been destroyed, and it never holds a tracker for a video
\* other than the current one.
C24_ManagerHoldsLiveTracker ==
    pendingHandlers = <<>> => ownerKeepsTracker(managerVideoTracker)

\* the stretches credited so far: the segment set and the open interval
creditedCells(ws, cs, lrt) == Cells(segmentsToSave(ws, cs, lrt))

\* C25: watched time is never credited while the element's playbackRate is
\* above 2.0: no step of an attached tracker that begins and ends with the
\* rate above the limit adds anything to the segment set or to the open
\* interval, also when the rate was already above the limit at attach and
\* no rate-change has been delivered since.
C25_NothingCreditedAboveLimit ==
    [][ (/\ listening /\ listening'
         /\ playbackRate > MAX_PLAYBACK_RATE
         /\ playbackRate' > MAX_PLAYBACK_RATE) =>
            creditedCells(watchedSegments', currentSegmentStart', lastRecordedTime')
                \subseteq creditedCells(watchedSegments, currentSegmentStart,
                                        lastRecordedTime)
      ]_vars

C27_OneTimerPending ==
    [][ /\ pendingTimers' <= 1
        /\ saveTimeout' <=> (pendingTimers' = 1)
        /\ (sameTracker /\ saveTimeout /\ saveTimeout') =>
               pendingTimers' = pendingTimers
        /\ (saves' # <<>> /\ saves'[1].by = "timer") =>
               /\ Len(saves') = 1
               /\ pendingTimers = 1
               /\ pendingTimers' = 0
      ]_vars

\* C27 witness: the timer started by the first of three time-updates of an
\* unbroken run has fired and written once.
C27_Witness ==
    /\ saves # <<>>
    /\ saves[1].by = "timer"
    /\ runActive
    /\ Len(run) >= 3
    /\ pendingTimers = 0

\* C28: the debounced write is issued only once SAVE_DEBOUNCE_MS have passed
\* with no save request, that is, measured from the most recent request of
\* the burst (as stated).
C28_WriteAfterQuietPeriod ==
    [][ (saves' # <<>> /\ saves'[1].by = "timer") => quiet = SAVE_DEBOUNCE_MS ]_vars

\* C28 amended: the debounced write is issued SAVE_DEBOUNCE_MS after the
\* request that started the timer, the first of the burst; a later request
\* of the burst does not postpone it, so it may come less than
\* SAVE_DEBOUNCE_MS after the most recent request.
C28_WriteAfterTimerDelay ==
    [][ /\ (saves' # <<>> /\ saves'[1].by = "timer") =>
               timerAge = SAVE_DEBOUNCE_MS
        /\ (saveTimeout /\ saveTimeout' /\ quiet' = 0) => timerAge' = timerAge
      ]_vars

\* C28 witness: the timer has written half a second after the latest request.
C28_Witness ==
    /\ saves # <<>>
    /\ saves[1].by = "timer"
    /\ quiet = 1

\* a time-update that is handled: not ignored and not the first sample
handledTimeUpdate ==
    /\ listening
    /\ ~timeUpdateIgnored
    /\ lastRecordedTime >= 0
    /\ lastRecordedTime' \in Times
    /\ TimeUpdate(lastRecordedTime')

\* C29: under fair timer firing every handled time-update is eventually
\* followed by a store write issued at or after it: the update leaves a
\* timer pending, a pending timer goes away only in a step that writes the
\* record to the store (the timer firing, or pause, ended or destroy), and a
\* pending timer does go away.
C29_HandledUpdateIsWritten ==
    /\ [][ /\ handledTimeUpdate => pendingTimers' > 0
           /\ (pendingTimers > 0 /\ pendingTimers' = 0) =>
                  (saves' # <<>> /\ store' = saves'[Len(saves')].rec)
         ]_vars
    /\ (pendingTimers > 0) ~> (pendingTimers = 0)

\* C29 witness: the timer has written an open interval that time-updates
\* had extended.
C29_Witness ==
    /\ saves # <<>>
    /\ saves[1].by = "timer"
    /\ currentSegmentStart >= 0
    /\ lastRecordedTime > currentSegmentStart
    /\ store.watchedSegments # <<>>

\* one of the six listeners of attachListeners() runs ('ratechange' reaches
\* the tracker only while its listeners are attached)
mediaEventHandled ==
    \/ \E currentTime \in Times : TimeUpdate(currentTime) \/ Seeked(currentTime)
    \/ \E rate \in Rates : listening /\ RateChange(rate)
    \/ Pause
    \/ Ended
    \/ LoadedMetadata

\* C30: no media event is handled by a tracker before its load of the stored
\* record has completed: the listeners are attached only in the step that
\* completes loadProgress, a tracker whose load has not completed handles no
\* media event, and when a record exists the tracker's watchedSegments
\* and isComplete at the attach equal the stored record's.
C30_LoadBeforeListeners ==
    [][ /\ (~listening /\ listening') =>
               /\ initPc = "loading" /\ initPc' = "ready"
               /\ seed' # "none"
               /\ store'.present =>
                      /\ watchedSegments' = store'.watchedSegments
                      /\ isComplete' = store'.isComplete
        /\ (seed = "none" \/ initPc # "ready") => ~mediaEventHandled
      ]_vars

\* C30 witness: a tracker has just attached its listeners with the segments
\* of an existing record, and no media event has reached it yet.
C30_Witness ==
    /\ listening
    /\ initPc = "ready"
    /\ lastRecordedTime = -1
    /\ store.present
    /\ store.watchedSegments # <<>>
    /\ watchedSegments = store.watchedSegments
    /\ isComplete = store.isComplete

\* init() has finished: the record is loaded, the listeners are attached and
\* tracking is on
initFinished ==
    initPc = "ready" /\ seed # "none" /\ listening /\ isTracking

C32_RetryIsBounded ==
    <>[]~(held /\ initPc = "retry" /\ ~elementPresent)

\* C33: for any sequence of rate-change events handled by a tracker, the
\* speed warning is shown exactly in the step that enters a run of rates above
\* the limit and the resumed notice exactly in the step that ends it; the
\* open interval is finalized in the entering step and a later rate-change of
\* the run leaves the segments and the open interval alone; and SpeedExceeded
\* is entered only with a rate above the limit, never with the limit itself.
C33_SpeedNoticesOncePerRun ==
    [][ sameTracker =>
          /\ (event' = <<"warning">>) <=> (rateRun' /\ ~rateRun)
          /\ (event' = <<"resumed">>) <=> (rateRun /\ ~rateRun')
          /\ (rateRun' /\ ~rateRun) =>
                 /\ watchedSegments' = closeSegment(watchedSegments,
                                           currentSegmentStart, lastRecordedTime)
                 /\ currentSegmentStart' = -1
                 /\ isSpeedExceeded'
          /\ (/\ rateRun /\ rateRun'
              /\ <<watchedSegments, currentSegmentStart>>' #
                     <<watchedSegments, currentSegmentStart>>) =>
                 ~\E rate \in Rates : RateChange(rate)
          /\ (isSpeedExceeded' /\ ~isSpeedExceeded) =>
                 playbackRate' > MAX_PLAYBACK_RATE
      ]_vars

\* C33 witness: a run above the limit, entered with an open interval that was
\* finalized, has just ended with the resumed notice.
C33_Witness ==
    /\ listening
    /\ event = <<"resumed">>
    /\ ~rateRun
    /\ ~isSpeedExceeded
    /\ ~speedWarningShown
    /\ playbackRate = MAX_PLAYBACK_RATE
    /\ watchedSegments # <<>>

C35_IgnoredUpdateChangesNothing ==
    [][ /\ (/\ listening
            /\ isComplete \/ isSpeedExceeded \/ ~isTracking
            /\ \E currentTime \in Times : TimeUpdate(currentTime)) =>
               /\ UNCHANGED <<watchedSegments, currentSegmentStart,
                              lastRecordedTime, saveTimeout, pendingTimers>>
               /\ saves' = <<>>
        /\ (isComplete /\ (Pause \/ Ended \/ Destroy)) =>
               /\ saves' # <<>>
               /\ store' = saves'[Len(saves')].rec
               /\ store'.isComplete
               /\ Cells(store'.watchedSegments) =
                      Cells(closeSegment(watchedSegments, currentSegmentStart,
                                         lastRecordedTime))
      ]_vars

\* C35 witness: a Complete tracker that holds segments has just paused and
\* written them.
C35_Witness ==
    /\ listening
    /\ isComplete
    /\ saves # <<>>
    /\ saves[1].by = "pause"
    /\ watchedSegments # <<>>
    /\ store.isComplete
    /\ store.watchedSegments = watchedSegments

\* a seeked event is handled; the new playhead is lastRecordedTime'
seekedDelivered ==
    /\ listening
    /\ lastRecordedTime' \in Times
    /\ currentSegmentStart' = lastRecordedTime'
    /\ run' = Broken
    /\ Seeked(lastRecordedTime')

\* the step closes the non-empty open interval into the set, restarts the open
\* interval at the new playhead, publishes one snapshot of the new state and
\* neither schedules nor performs a save
seekedCloses ==
    /\ IF currentSegmentStart >= 0 /\ lastRecordedTime > currentSegmentStart
       THEN IsCanonicalMergeOf(watchedSegments',
                Append(watchedSegments, <<currentSegmentStart, lastRecordedTime>>))
       ELSE watchedSegments' = watchedSegments
    /\ currentSegmentStart' = lastRecordedTime'
    /\ published' = <<getState'>>
    /\ saves' = <<>>
    /\ store' = store
    /\ UNCHANGED <<saveTimeout, pendingTimers>>

\* C36 as stated: a seeked event, whatever the tracker's state (Tracking,
\* SpeedExceeded or Complete), closes the non-empty open interval into the
\* segment set, restarts the open interval at the new currentTime, credits
\* nothing of the range between the old playhead and the new one, publishes
\* a snapshot at once, and neither schedules nor performs a save.
C36_SeekedCreditsNothingOfJump ==
    [][ seekedDelivered => (seekedCloses /\ jumpedAdded = {}) ]_vars

\* C36 amended: as stated, except that the step may credit the first 0.5 s
\* of the range between the old playhead and the new one, and only when a
\* segment recorded before begins within 0.5 s after the old playhead (the
\* merge tolerance joins the closed interval to it).
C36_SeekedCreditsAtMostTolerance ==
    [][ seekedDelivered =>
          /\ seekedCloses
          /\ jumpedAdded \subseteq (lastRecordedTime .. lastRecordedTime + TAU - 1)
          /\ jumpedAdded # {} =>
                /\ currentSegmentStart >= 0 /\ lastRecordedTime > currentSegmentStart
                /\ \E i \in DOMAIN watchedSegments :
                       /\ watchedSegments[i][1] > lastRecordedTime
                       /\ watchedSegments[i][1] <= lastRecordedTime + TAU
      ]_vars

\* C36 witness: a seek has just closed an open interval and moved the
\* playhead forward, away from it, in a tracker whose speed is exceeded, and
\* has published the new state.
C36_Witness ==
    /\ listening
    /\ isSpeedExceeded
    /\ published # <<>>
    /\ saves = <<>>
    /\ watchedSegments # <<>>
    /\ currentSegmentStart = lastRecordedTime
    /\ currentSegmentStart > watchedSegments[Len(watchedSegments)][2] + TAU
    /\ published[1].watchedSegments = watchedSegments

\* C37: every handler step that changes watchedSegments or isComplete (a
\* segment closed by a time-update skip, seeked, the finalize on a rate-change
\* above the limit, pause, ended, completion) publishes, before the next
\* media event is handled, a snapshot that carries the new segment set,
\* totalWatched, percentComplete and isComplete.
C37_ChangeIsPublished ==
    [][ (/\ listening
         /\ <<watchedSegments, isComplete>>' # <<watchedSegments, isComplete>>) =>
            /\ published' # <<>>
            /\ published'[Len(published')] = getState'
      ]_vars

\* C38: the snapshot published when a save completes agrees with the record
\* that save persisted: the same watchedSegments and the same totalWatched
\* (an open interval is reflected in both or in neither).
C38_SnapshotAgreesWithRecord ==
    [][ saves' # <<>> =>
          /\ published' # <<>>
          /\ published'[Len(published')].watchedSegments =
                 saves'[Len(saves')].rec.watchedSegments
          /\ published'[Len(published')].totalWatched =
                 saves'[Len(saves')].rec.totalWatched
      ]_vars

\* ---- utils.ts: throttle and deduplicatedRequest ----------------------------

InitUtils ==
    /\ elementPresent = FALSE
    /\ playbackRate = MAX_PLAYBACK_RATE
    /\ held = FALSE
    /\ videoElement = FALSE
    /\ duration = 0
    /\ watchedSegments = <<>>
    /\ lastRecordedTime = -1
    /\ currentSegmentStart = -1
    /\ isTracking = FALSE
    /\ saveTimeout = FALSE
    /\ pendingTimers = 0
    /\ isComplete = FALSE
    /\ speedWarningShown = FALSE
    /\ isSpeedExceeded = FALSE
    /\ initPc = "none"
    /\ listening = FALSE
    /\ pendingLoad = NoRecord
    /\ store = NoRecord
    /\ event = <<>>
    /\ saves = <<>>
    /\ published = <<>>
    /\ toasts = 0
    /\ seed = "none"
    /\ run = Broken
    /\ excursion = <<>>
    /\ L = <<>>
    /\ M = <<>>
    /\ outage = FALSE
    /\ twinStore = NoRecord
    /\ twinLoad = NoRecord
    /\ storageIdle
    /\ ownersIdle
    /\ clocksIdle
    /\ retries = 0
    /\ rateRun = FALSE
    /\ utilsIdle

utilsFrame ==
    UNCHANGED <<elementPresent, playbackRate, held, trackerVars, initPc,
                listening, pendingLoad, store, event, saves, published, toasts,
                seed, run, excursion, L, M, outage, twinVars, storageVars,
                ownerVars, clockVars, initVars, rateVars>>

dedupVars == <<pendingRequests, inFlight, issued, returned>>
throttleVars == <<inThrottle, lastArgs, throttleAge, sinceRun, ran, periodCalls>>

\* the function throttle() returns, called with args
ThrottledCall(args) ==
    /\ IF inThrottle
       THEN /\ Len(periodCalls) < MaxCalls
            /\ lastArgs' = args
            /\ ran' = <<>>
            /\ periodCalls' = Append(periodCalls, args)
            /\ UNCHANGED <<inThrottle, throttleAge, sinceRun>>
       ELSE /\ ran' = <<args>>
            /\ sinceRun' = 0
            /\ inThrottle' = TRUE
            /\ throttleAge' = 0
            /\ periodCalls' = <<>>
            /\ lastArgs' = lastArgs
    /\ UNCHANGED dedupVars
    /\ utilsFrame

\* the callback throttle() hands to setTimeout(.., limit)
ThrottleTimeout ==
    /\ throttleAge = Limit
    /\ inThrottle' = FALSE
    /\ ran' = IF lastArgs # NoArgs THEN <<lastArgs>> ELSE <<>>
    /\ sinceRun' = IF lastArgs # NoArgs THEN 0 ELSE sinceRun
    /\ lastArgs' = NoArgs
    /\ throttleAge' = -1
    /\ periodCalls' = <<>>
    /\ UNCHANGED dedupVars
    /\ utilsFrame

\* one tick passes; a timer that is due runs first
ThrottleTimePasses ==
    /\ throttleAge < Limit
    /\ throttleAge # -1 \/ sinceRun < Limit
    /\ throttleAge' = IF throttleAge = -1 THEN -1 ELSE throttleAge + 1
    /\ sinceRun' = IF sinceRun < Limit THEN sinceRun + 1 ELSE Limit
    /\ ran' = <<>>
    /\ UNCHANGED <<inThrottle, lastArgs, periodCalls>>
    /\ UNCHANGED dedupVars
    /\ utilsFrame

NextThrottle ==
    \/ \E args \in Args : ThrottledCall(args)
    \/ ThrottleTimeout
    \/ ThrottleTimePasses

SpecThrottle == InitUtils /\ [][NextThrottle]_vars

\* deduplicatedRequest(key, requestFn); a promise is named by the number of
\* the requestFn call that made it
DeduplicatedRequest(key) ==
    /\ IF pendingRequests[key] # NoPromise
       THEN /\ returned' = pendingRequests[key]
            /\ UNCHANGED <<pendingRequests, inFlight, issued>>
       ELSE /\ issued < MaxRequests
            /\ issued' = issued + 1
            /\ inFlight' = inFlight \cup {<<key, issued + 1>>}
            /\ pendingRequests' = [pendingRequests EXCEPT ![key] = issued + 1]
            /\ returned' = issued + 1
    /\ UNCHANGED throttleVars
    /\ utilsFrame

\* a request settles and its finally() callback runs
RequestSettles(request) ==
    /\ request \in inFlight
    /\ inFlight' = inFlight \ {request}
    /\ pendingRequests' = [pendingRequests EXCEPT ![request[1]] = NoPromise]
    /\ UNCHANGED <<issued, returned>>
    /\ UNCHANGED throttleVars
    /\ utilsFrame

\* cleanupCaches(); the selector cache is not modelled
cleanupCaches ==
    /\ pendingRequests' = [key \in Keys |-> NoPromise]
    /\ UNCHANGED <<inFlight, issued, returned>>
    /\ UNCHANGED throttleVars
    /\ utilsFrame

NextDedup ==
    \/ \E key \in Keys : DeduplicatedRequest(key)
    \/ \E request \in inFlight : RequestSettles(request)
    \/ cleanupCaches

SpecDedup == InitUtils /\ [][NextDedup]_vars

\* C39: a throttled function runs at most once in any period of `limit`: a
\* call made while a period is open is not run, at the end of the period the
\* latest such call is run once with its arguments, and no run comes sooner
\* than `limit` after the run before it
C39_AtMostOncePerLimit ==
    [][/\ ran' # <<>> => sinceRun = Limit
       /\ \A args \in Args :
              (ThrottledCall(args) /\ inThrottle) => ran' = <<>>
       /\ ThrottleTimeout =>
              ran' = IF periodCalls = <<>> THEN <<>>
                     ELSE <<periodCalls[Len(periodCalls)]>>]_vars

\* C40: for each key at most one requestFn is in flight, and a call made
\* while a request for its key is in flight returns that request's promise
\* and calls no requestFn, whatever calls, settlements and cleanupCaches()
\* came before
inFlightFor(key) == {request \in inFlight : request[1] = key}
C40_NoDuplicateRequests ==
    /\ [](\A key \in Keys : Cardinality(inFlightFor(key)) <= 1)
    /\ [][\A key \in Keys :
              (DeduplicatedRequest(key) /\ inFlightFor(key) # {}) =>
                  /\ issued' = issued
                  /\ <<key, returned'>> \in inFlightFor(key)]_vars

====
